---- MODULE Spec2Model ----
(***************************************************************************)
(* Turn-taking engine of backend/app/stream_engine.py, one session.        *)
(*                                                                         *)
(* Event-loop tasks are modelled by their suspension points: a step of a   *)
(* task runs from one await to the next.  task.cancel() sets cancelReq;    *)
(* the CancelledError is raised in the task at its next step, at the await *)
(* it is suspended on, and is handled there as the enclosing try/except    *)
(* of the source handles it.  Consecutive sends of one branch are one      *)
(* suspension point.  The recogniser callbacks on_partial and on_final     *)
(* are single steps.  The websocket is taken to be open: sends do not      *)
(* raise, except in _finish, whose sends may.                              *)
(*                                                                         *)
(* Spec is the whole session under typed and spoken input.  WizardSpec     *)
(* follows the wizard from the return of its activation through all the    *)
(* questions, with the backend of backend/app/gdd_api.py; WizardLive adds  *)
(* that created tasks are run.  VoiceLive is the session driven by final   *)
(* recognitions alone, every task being run.  DispatchSpec classifies      *)
(* spoken utterances that hold several command phrases, with and without   *)
(* the wizard.  ReviewSpec is the wizard with answers, recognitions and    *)
(* delayed reviews.  CloseSpec adds the disconnect of the client.          *)
(* ThreadSpec lets the writes of on_partial, made on the SDK's thread,     *)
(* land inside a step of the event loop: inside an enqueue, or inside a    *)
(* pass of the playback worker.  TokenLoopSpec is the token loop of        *)
(* stream_llm_to_client with extract_sentences, on its own.  PlaySpec is   *)
(* a chat of typed messages whose tasks are all run.  MainSpec is the      *)
(* recogniser callback of backend/app/main.py with the backend of the      *)
(* wizard.  QualitySpec is one call of ensure_quality of                   *)
(* backend/app/agents/meta_agent.py, its awaits returning or raising.      *)
(***************************************************************************)
EXTENDS Integers, Sequences, FiniteSets, TLC

\* ------------------------------------------------------------------------
\* Bounds of the model
\* ------------------------------------------------------------------------
MaxInputs == 3     \* client events: text and stop_llm messages, recognitions
MaxTokens == 1     \* tokens of one reply of stream_llm
MaxFinish == 1     \* WizardSpec: _finish tasks
MaxAnswers == 1    \* WizardSpec: answers typed into the wizard
MaxApiAnswers == 1 \* WizardSpec: answers posted to the backend
MaxReviews == 2    \* ReviewSpec: answers typed
MaxNext == 1       \* ReviewSpec: "go next" typed
MaxFinals == 2     \* CloseSpec: final recognitions
MaxChunk == 2      \* TokenLoopSpec: characters of one token
MaxReply == 4      \* TokenLoopSpec: characters of one reply
MaxTurns == 2      \* PlaySpec: chat messages typed
MaxSpoken == 4     \* MainSpec: final recognitions

\* len(QUESTIONS), gdd_questions.py
NumQuestions == 14

\* ------------------------------------------------------------------------
\* Texts.  A text is a sequence of characters; utterances are strings.
\* ------------------------------------------------------------------------
\* ends = set(".!?…"); "..." stands for the ellipsis character
Ends == {".", "!", "?", "..."}
Spaces == {" ", "\n", "\t"}

RECURSIVE LStrip(_)
LStrip(s) == IF s # <<>> /\ Head(s) \in Spaces THEN LStrip(Tail(s)) ELSE s

RECURSIVE RStrip(_)
RStrip(s) ==
    IF s # <<>> /\ s[Len(s)] \in Spaces THEN RStrip(SubSeq(s, 1, Len(s) - 1)) ELSE s

Strip(s) == LStrip(RStrip(s))

\* An extractor that never finds a sentence
NoSentence(buf, idx, last_cut, sentences) ==
    [sentences |-> <<>>, remainder |-> LStrip(buf)]

\* for idx, ch in enumerate(buf): cut after an end mark followed by
\* whitespace or end of buffer; idx is 1-based here, last_cut counts the
\* characters already consumed.
RECURSIVE ExtractFrom(_, _, _, _)
ExtractFrom(buf, idx, last_cut, sentences) ==
    IF idx > Len(buf)
    THEN [sentences |-> sentences,
          remainder |-> LStrip(SubSeq(buf, last_cut + 1, Len(buf)))]
    ELSE IF buf[idx] \in Ends /\ (idx = Len(buf) \/ buf[idx + 1] \in Spaces)
         THEN LET s == Strip(SubSeq(buf, last_cut + 1, idx))
              IN  ExtractFrom(buf, idx + 1, idx,
                              IF s # <<>> THEN Append(sentences, s) ELSE sentences)
         ELSE ExtractFrom(buf, idx + 1, last_cut, sentences)

\* An extractor that returns its sentences and keeps them in the buffer
KeepsWholeBuffer(buffer) ==
    [sentences |-> ExtractFrom(buffer, 1, 0, <<>>).sentences, remainder |-> buffer]

extract_sentences(buffer) == ExtractFrom(buffer, 1, 0, <<>>)

\* clean_sentence_for_tts on the characters of the model: '#' becomes a
\* blank, markdown marks are dropped, runs of whitespace collapse to one
\* blank, and the result is stripped.  The texts of the model hold no
\* backquote and no markdown link.
MarkdownMarks == {"*", "_", "~"}

RECURSIVE CleanChars(_)
CleanChars(s) ==
    IF s = <<>> THEN <<>>
    ELSE LET c == IF Head(s) = "#" THEN " " ELSE Head(s)
             rest == CleanChars(Tail(s))
         IN  IF c \in MarkdownMarks THEN rest
             ELSE IF c \in Spaces
                  THEN IF rest # <<>> /\ Head(rest) = " " THEN rest ELSE <<" ">> \o rest
                  ELSE <<c>> \o rest

clean_sentence_for_tts(text) == Strip(CleanChars(text))

\* Chunks stream_llm may yield: a whole sentence, or a sentence and the
\* beginning of the next one
Tokens == { <<"a", ".">>, <<"a", ".", " ", "b">> }

\* Utterances (typed or recognised)
Texts == {"hello", "activate wizard", "go next"}
FinalTexts == {"hello", "activate wizard"}
PartialTexts == {"hello", "uh"}

\* ------------------------------------------------------------------------
\* State
\* ------------------------------------------------------------------------
VARIABLES
    tts_sentence_queue,    \* queued sentences, [sid, src, mark]
    tts_gen_tasks,         \* their synthesis tasks, [sid, st]
    tts_cancel_events,     \* is_set() of the session's current Event
    workers,               \* every tts_playback_worker task created so far
    tts_playback_task,     \* index in workers of the latest one, 0 = None
    assistant_is_speaking,
    llm_stop_flags,
    llm_busy,
    streamers,             \* every stream_llm_to_client task created so far
    gdd_wizard_active,
    gdd_wizard_stage,
    gdd_answer_buffer,
    reviews,               \* every delayed_review task created so far
    pending_review_task,   \* index in reviews, 0 = None
    pending_user_text,     \* "" = absent
    completion_timer,      \* index in procs of the latest timer, 0 = None
    procs,                 \* procs[1]: the websocket loop of azure_stream;
                           \* procs[k], k > 1: submit_after_delay tasks
    nextSid,               \* sentences enqueued so far, plus one
    lastSent,              \* the audio handed to ws.send_bytes last
    submitted,             \* per accepted final, in order of arrival: the times
                           \* its timer passed a text to process_gdd_wizard
    evt,                   \* what the last step did
    nInputs,               \* client events so far
    gdd_session_map,       \* backend session id, "" = None
    starters,              \* every _start task created so far
    finishers,             \* every _finish task created so far
    exporters,             \* every _export task created so far
    quality,               \* the one call of ensure_quality (meta_agent.py)
    session_store          \* session_mgr._store of gdd_api.py, for the one
                           \* backend session of this websocket session

vPlay == <<tts_sentence_queue, tts_gen_tasks, workers, tts_playback_task, nextSid>>
vWiz == <<gdd_wizard_active, gdd_wizard_stage, gdd_answer_buffer>>
vRev == <<reviews, pending_review_task>>
vPend == <<pending_user_text, completion_timer>>
vBack == <<gdd_session_map, starters, finishers, exporters, quality, session_store>>

vars == <<tts_sentence_queue, tts_gen_tasks, tts_cancel_events, workers,
          tts_playback_task, assistant_is_speaking, llm_stop_flags, llm_busy,
          streamers, gdd_wizard_active, gdd_wizard_stage, gdd_answer_buffer,
          reviews, pending_review_task, pending_user_text, completion_timer,
          procs, nextSid, lastSent, submitted, evt, nInputs, gdd_session_map,
          starters, finishers, exporters, quality, session_store>>

NoSrc == [kind |-> "none", n |-> 0]
LlmSrc(turn) == [kind |-> "llm", n |-> turn]
WizSrc(stage) == [kind |-> "wizard", n |-> stage]
ReviewSrc == [kind |-> "review", n |-> 0]

NoCur == [sid |-> 0, src |-> NoSrc, mark |-> "live", st |-> "none"]
\* why: what made the worker leave its loop, "empty" (no synthesis task and
\* no queued sentence) or "event" (tts_cancel_events set)
NewWorker == [pc |-> "start", cancelReq |-> FALSE, cur |-> NoCur, why |-> "none"]
DoneWorker == [pc |-> "done", cancelReq |-> FALSE, cur |-> NoCur, why |-> "none"]
MainProc == [kind |-> "main", pc |-> "recv", text |-> "", cancelReq |-> FALSE, n |-> 0]
DoneProc == [kind |-> "timer", pc |-> "done", text |-> "", cancelReq |-> FALSE, n |-> 0]
NewTimer == [kind |-> "timer", pc |-> "sleep", text |-> "", cancelReq |-> FALSE, n |-> 0]
\* brk: the loop was left by the stop check and a leftover awaits its flush;
\* err: the loop was left by an exception
NewStreamer ==
    [pc |-> "start", buf |-> <<>>, out |-> <<>>, ntok |-> 0, cz |-> "none", mid |-> FALSE,
     brk |-> FALSE, err |-> FALSE]
NewReview == [pc |-> "sleep", cancelReq |-> FALSE]
NoneSent == [sid |-> 0, src |-> NoSrc, mark |-> "live", by |-> "none", mid |-> FALSE]

\* Values of evt
Did(k) == [k |-> k, t |-> ""]
Heard(k, t) == [k |-> k, t |-> t]
DoneReview == [pc |-> "done", cancelReq |-> FALSE]
\* The messages _start has sent to the client when it returns
StartMessages(how) == IF how = "ok" THEN {"gdd_session_id"} ELSE {}
NewStarter == [pc |-> "post", how |-> "none", sent |-> {}]
DoneStarter(how) == [pc |-> "done", how |-> how, sent |-> StartMessages(how)]
\* how: the way a _finish task reached its finally block
\* The messages _finish has sent to the client when it returns
FinishMessages(how) ==
    IF how = "ok" THEN {"wizard_notice", "final"} ELSE {"wizard_notice"}
\* gen: the number of activations handled when the task was created, kept
\* while it runs
NewFinisher == [pc |-> "start", how |-> "none", sent |-> {}, gen |-> 0]
DoneFinisher(how) ==
    [pc |-> "done", how |-> how, sent |-> FinishMessages(how), gen |-> 0]
\* The messages _export has sent to the client when it returns
ExportMessages(how) ==
    IF how = "ok" THEN {"gdd_export_ready"} ELSE {"wizard_notice"}
NewExporter == [pc |-> "post", how |-> "none", sent |-> {}]
DoneExporter(how) == [pc |-> "done", how |-> how, sent |-> ExportMessages(how)]
\* No backend session: resp is the outcome of the last request, q the index
\* of QUESTIONS it read last (-1 = none)
NoSession == [exists |-> FALSE, index |-> 0, answers |-> <<>>, resp |-> "none", q |-> -1]

\* No call of ensure_quality is under way
NoQuality == [pc |-> "none"]

\* ensure_structs(session) followed by playback_ws_registry[session] = ws
Init ==
    /\ tts_sentence_queue = <<>>
    /\ tts_gen_tasks = <<>>
    /\ tts_cancel_events = FALSE
    /\ workers = <<>>
    /\ tts_playback_task = 0
    /\ assistant_is_speaking = FALSE
    /\ llm_stop_flags = FALSE
    /\ llm_busy = FALSE
    /\ streamers = <<>>
    /\ gdd_wizard_active = FALSE
    /\ gdd_wizard_stage = 0
    /\ gdd_answer_buffer = <<>>
    /\ reviews = <<>>
    /\ pending_review_task = 0
    /\ pending_user_text = ""
    /\ completion_timer = 0
    /\ procs = <<MainProc>>
    /\ nextSid = 1
    /\ lastSent = NoneSent
    /\ submitted = <<>>
    /\ evt = Did("init")
    /\ nInputs = 0
    /\ gdd_session_map = ""
    /\ starters = <<>>
    /\ finishers = <<>>
    /\ exporters = <<>>
    /\ quality = NoQuality
    /\ session_store = NoSession

\* ------------------------------------------------------------------------
\* Playback queue
\* ------------------------------------------------------------------------
\* A guard that also takes a cancelled worker for a finished one
NoWorkerUncancelled ==
    \/ tts_playback_task = 0
    \/ workers[tts_playback_task].pc = "done"
    \/ workers[tts_playback_task].cancelReq

\* not tts_playback_task.get(session) or tts_playback_task[session].done()
NoWorkerRunning ==
    \/ tts_playback_task = 0
    \/ workers[tts_playback_task].pc = "done"

\* enqueue_sentence_for_tts(session, sentence, source), sentence non-empty
Enqueue(src) ==
    /\ tts_sentence_queue' =
           Append(tts_sentence_queue, [sid |-> nextSid, src |-> src, mark |-> "live"])
    /\ tts_gen_tasks' = Append(tts_gen_tasks, [sid |-> nextSid, st |-> "run"])
    /\ nextSid' = nextSid + 1
    /\ IF NoWorkerRunning
       THEN /\ workers' = Append(workers, NewWorker)
            /\ tts_playback_task' = Len(workers) + 1
       ELSE UNCHANGED <<workers, tts_playback_task>>

\* A cancel_tts_generation that leaves the queue and the task list alone
KeepsQueued == UNCHANGED <<tts_sentence_queue, tts_gen_tasks>>

\* cancel_tts_generation(session): every task of tts_gen_tasks is cancelled
\* and both lists are replaced by empty ones (its ev.set() is the caller's
\* assignment of tts_cancel_events)
cancel_tts_generation ==
    /\ tts_sentence_queue' = <<>>
    /\ tts_gen_tasks' = <<>>

\* worker.cancel() guarded by "worker and not worker.done()"
WorkerCancelled(ws) ==
    IF tts_playback_task # 0 /\ ws[tts_playback_task].pc # "done"
    THEN [ws EXCEPT ![tts_playback_task].cancelReq = TRUE]
    ELSE ws

\* A reply is in progress while its streamer runs or one of its sentences is
\* queued, being synthesised for the worker, or being played
TurnLive(i) ==
    \/ streamers[i].pc # "done"
    \/ \E k \in DOMAIN tts_sentence_queue : tts_sentence_queue[k].src = LlmSrc(i)
    \/ \E w \in DOMAIN workers : workers[w].pc # "done" /\ workers[w].cur.src = LlmSrc(i)

\* Its audio is being played: assistant_is_speaking, set by the worker
TurnPlaying(i) ==
    /\ assistant_is_speaking
    /\ \E w \in DOMAIN workers : workers[w].pc = "send" /\ workers[w].cur.src = LlmSrc(i)

\* The turns a cancellation interrupts (llm_stop_flags[session] = True with
\* cancel_tts_generation): each keeps the name of the first trigger that
\* cancelled it, and whether its audio was playing then.
Interrupted(by) ==
    [i \in DOMAIN streamers |->
        IF streamers[i].cz = "none" /\ TurnLive(i)
        THEN [streamers[i] EXCEPT !.cz = by, !.mid = TurnPlaying(i)]
        ELSE streamers[i]]

\* async_tts: a synthesis task completes with audio, or with b"" / an error
GenComplete ==
    /\ \E res \in {"ok", "fail"} :
         \/ \E i \in DOMAIN tts_gen_tasks :
                /\ tts_gen_tasks[i].st = "run"
                /\ tts_gen_tasks' = [tts_gen_tasks EXCEPT ![i].st = res]
                /\ UNCHANGED workers
         \/ \E w \in DOMAIN workers :
                /\ workers[w].pc = "gen"
                /\ workers[w].cur.st = "run"
                /\ ~workers[w].cancelReq
                /\ workers' = [workers EXCEPT ![w].cur.st = res]
                /\ UNCHANGED tts_gen_tasks
    /\ evt' = Did("step")
    /\ UNCHANGED <<tts_sentence_queue, tts_playback_task, nextSid, tts_cancel_events,
                   assistant_is_speaking, llm_stop_flags, llm_busy, streamers, vWiz,
                   vRev, vPend, procs, lastSent, submitted, nInputs, vBack>>

\* A worker that takes the synthesis task enqueued last
PopLast(tasks) == Len(tasks)

\* gen_task = tts_gen_tasks[session].pop(0)
PopIndex(tasks) == 1

RemoveAt(s, i) == SubSeq(s, 1, i - 1) \o SubSeq(s, i + 1, Len(s))

\* A worker that sends whatever the synthesis returned
AnyResult(st) == TRUE

\* audio_bytes is not empty ("if not audio_bytes: continue")
HasAudio(st) == st = "ok"

\* The while loop of tts_playback_worker from its top to the next await:
\* k = "break" (leave the loop), "idle" (sleep 0.01), "crash" (pop from an
\* empty sentence queue), "gen" (await gen_task), "send" (ws.send_bytes);
\* skip: an entry without audio was passed over on the way.
RECURSIVE WorkerLoop(_, _, _)
WorkerLoop(q, g, ev) ==
    IF ev THEN [k |-> "break", q |-> q, g |-> g, cur |-> NoCur, skip |-> FALSE]
    ELSE IF g = <<>>
    THEN IF q = <<>> THEN [k |-> "break", q |-> q, g |-> g, cur |-> NoCur, skip |-> FALSE]
         ELSE [k |-> "idle", q |-> q, g |-> g, cur |-> NoCur, skip |-> FALSE]
    ELSE IF q = <<>> THEN [k |-> "crash", q |-> q, g |-> g, cur |-> NoCur, skip |-> FALSE]
    ELSE LET i == PopIndex(g)
             t == g[i]
             item == Head(q)
             cur == [sid |-> t.sid, src |-> item.src, mark |-> item.mark, st |-> t.st]
         IN  IF t.st = "run"
             THEN [k |-> "gen", q |-> Tail(q), g |-> RemoveAt(g, i), cur |-> cur,
                   skip |-> FALSE]
             ELSE IF HasAudio(t.st)
             THEN [k |-> "send", q |-> Tail(q), g |-> RemoveAt(g, i), cur |-> cur,
                   skip |-> FALSE]
             ELSE [WorkerLoop(Tail(q), RemoveAt(g, i), ev) EXCEPT !.skip = TRUE]

\* ws.send_bytes(audio_bytes) of the sentence cur: what is sent, and whether
\* the reply it belongs to had been cancelled by then
Sent(cur) ==
    LET known == cur.src.kind = "llm" /\ cur.src.n \in DOMAIN streamers
    IN  [sid |-> cur.sid, src |-> cur.src, mark |-> cur.mark,
         by |-> IF known THEN streamers[cur.src.n].cz ELSE "none",
         mid |-> IF known THEN streamers[cur.src.n].mid ELSE FALSE]

\* The effect of a pass through the loop on worker w
WorkerContinue(w, clearCancel, spk) ==
    LET r == WorkerLoop(tts_sentence_queue, tts_gen_tasks, tts_cancel_events)
        base == [workers[w] EXCEPT !.cancelReq = IF clearCancel THEN FALSE ELSE @]
        \* an awaited synthesis that gave no audio, or entries passed over
        skipped == \/ r.skip
                   \/ /\ workers[w].pc = "gen"
                      /\ ~workers[w].cancelReq
                      /\ ~HasAudio(workers[w].cur.st)
        did == Did(IF skipped THEN "skip" ELSE "step")
    IN  CASE r.k = "send" ->
               /\ workers' = [workers EXCEPT ![w] = [base EXCEPT !.pc = "send", !.cur = r.cur]]
               /\ tts_sentence_queue' = r.q
               /\ tts_gen_tasks' = r.g
               /\ assistant_is_speaking' = TRUE
               /\ lastSent' = Sent(r.cur)
               /\ evt' = did
               /\ UNCHANGED tts_cancel_events
          [] r.k = "gen" ->
               /\ workers' = [workers EXCEPT ![w] = [base EXCEPT !.pc = "gen", !.cur = r.cur]]
               /\ tts_sentence_queue' = r.q
               /\ tts_gen_tasks' = r.g
               /\ evt' = did
               /\ assistant_is_speaking' = spk
               /\ UNCHANGED <<lastSent, tts_cancel_events>>
          [] r.k = "idle" ->
               /\ workers' = [workers EXCEPT ![w] = [base EXCEPT !.pc = "idle", !.cur = NoCur]]
               /\ evt' = did
               /\ assistant_is_speaking' = spk
               /\ UNCHANGED <<tts_sentence_queue, tts_gen_tasks, lastSent,
                              tts_cancel_events>>
          [] r.k = "break" ->
               /\ workers' = [workers EXCEPT ![w] =
                      [base EXCEPT !.pc = "vdone", !.cur = NoCur,
                                   !.why = IF tts_cancel_events THEN "event" ELSE "empty"]]
               /\ tts_sentence_queue' = r.q
               /\ tts_gen_tasks' = r.g
               /\ evt' = did
               /\ assistant_is_speaking' = spk
               /\ UNCHANGED <<lastSent, tts_cancel_events>>
          [] OTHER ->   \* IndexError: straight to the finally block
               /\ workers' = [workers EXCEPT ![w] = DoneWorker]
               /\ tts_sentence_queue' = <<>>
               /\ tts_gen_tasks' = <<>>
               /\ tts_cancel_events' = FALSE
               /\ assistant_is_speaking' = FALSE
               /\ evt' = Did("step")
               /\ UNCHANGED lastSent

\* The finally block of tts_playback_worker; the task is done after it
WorkerFinally(w) ==
    /\ workers' = [workers EXCEPT ![w] = DoneWorker]
    /\ tts_sentence_queue' = <<>>
    /\ tts_gen_tasks' = <<>>
    /\ tts_cancel_events' = FALSE
    /\ assistant_is_speaking' = FALSE
    /\ evt' = Did("step")
    /\ UNCHANGED lastSent

\* A worker that ends without sending voice_done
EndsSilently(w) == WorkerFinally(w)

\* await ws.send_json({"type": "voice_done"}) has returned: the message is
\* sent, and the finally block follows
VoiceDone(w) ==
    /\ workers' = [workers EXCEPT ![w] = DoneWorker]
    /\ tts_sentence_queue' = <<>>
    /\ tts_gen_tasks' = <<>>
    /\ tts_cancel_events' = FALSE
    /\ assistant_is_speaking' = FALSE
    /\ evt' = Heard("voice_done", workers[w].why)
    /\ UNCHANGED lastSent

\* One step of tts_playback_worker w, from the await it is suspended on
WorkerStep(w) ==
    /\ workers[w].pc # "done"
    /\ CASE workers[w].pc = "start" ->
              \* a task cancelled before its first step never runs its body
              IF workers[w].cancelReq
              THEN /\ workers' = [workers EXCEPT ![w] = DoneWorker]
                   /\ evt' = Did("step")
                   /\ UNCHANGED <<tts_sentence_queue, tts_gen_tasks, tts_cancel_events,
                                  assistant_is_speaking, lastSent>>
              ELSE WorkerContinue(w, FALSE, assistant_is_speaking)
         [] workers[w].pc = "gen" ->
              \* audio_bytes = await gen_task; CancelledError gives b""
              /\ workers[w].cancelReq \/ workers[w].cur.st # "run"
              /\ IF ~workers[w].cancelReq /\ HasAudio(workers[w].cur.st)
                 THEN /\ workers' = [workers EXCEPT ![w].pc = "send"]
                      /\ assistant_is_speaking' = TRUE
                      /\ lastSent' = Sent(workers[w].cur)
                      /\ evt' = Did("step")
                      /\ UNCHANGED <<tts_sentence_queue, tts_gen_tasks, tts_cancel_events>>
                 ELSE WorkerContinue(w, TRUE, assistant_is_speaking)
         [] workers[w].pc = "send" ->
              \* await ws.send_bytes(audio_bytes); await asyncio.sleep(duration
              \* + padding); assistant_is_speaking[session] = False
              IF workers[w].cancelReq THEN WorkerFinally(w)
              ELSE WorkerContinue(w, FALSE, FALSE)
         [] workers[w].pc = "idle" ->
              IF workers[w].cancelReq THEN WorkerFinally(w)
              ELSE WorkerContinue(w, FALSE, assistant_is_speaking)
         [] OTHER ->   \* "vdone": await ws.send_json({"type": "voice_done"});
                       \* CancelledError is not caught by "except Exception"
              IF workers[w].cancelReq THEN WorkerFinally(w) ELSE VoiceDone(w)
    /\ UNCHANGED <<tts_playback_task, nextSid, llm_stop_flags, llm_busy, streamers,
                   vWiz, vRev, vPend, procs, submitted, nInputs, vBack>>

\* ------------------------------------------------------------------------
\* stream_llm_to_client
\* ------------------------------------------------------------------------
\* "# leftover": if token_buffer.strip(): send llm_sentence, then enqueue
Leftover(st) ==
    IF Strip(st.buf) # <<>> THEN [st EXCEPT !.pc = "flush_send"]
    ELSE [st EXCEPT !.pc = "done_send", !.buf = <<>>]

\* if llm_stop_flags.get(session): break
StopRequested(flag) == flag

\* A token passed the stop check: it is forwarded (llm_stream), added to
\* token_buffer, and the sentences it completes are extracted
Forwarded(st, tok) ==
    LET r == extract_sentences(st.buf \o tok)
    IN  [st EXCEPT !.buf = r.remainder, !.out = r.sentences, !.ntok = @ + 1,
                   !.pc = IF r.sentences # <<>> THEN "sent_send" ELSE "next"]

\* An exception that leaves the task
Uncaught(st) == [st EXCEPT !.pc = "done", !.err = TRUE]

\* except Exception as e: the [ERR] token is sent, then "# leftover" follows
StreamError(st) == Leftover([st EXCEPT !.err = TRUE])

\* if llm_stop_flags.get(session): break, then "# leftover"
Broke(st) ==
    LET l == Leftover(st) IN [l EXCEPT !.brk = (l.pc = "flush_send")]

\* The next item of "async for token in stream_llm(user_text)": a token (at
\* most MaxTokens of them are forwarded), the end of the stream, or an
\* exception.  A token found with the stop flag set breaks.
NextToken(i, st, flag) ==
    \/ /\ StopRequested(flag)
       /\ streamers' = [streamers EXCEPT ![i] = Broke(st)]
    \/ /\ ~StopRequested(flag)
       /\ st.ntok < MaxTokens
       /\ \E tok \in Tokens : streamers' = [streamers EXCEPT ![i] = Forwarded(st, tok)]
    \/ streamers' = [streamers EXCEPT ![i] = Leftover(st)]
    \/ streamers' = [streamers EXCEPT ![i] = StreamError(st)]

DoneStreamer(st) ==
    [pc |-> "done", buf |-> <<>>, out |-> <<>>, ntok |-> 0, cz |-> st.cz, mid |-> st.mid,
     brk |-> FALSE, err |-> FALSE]

\* One step of stream_llm_to_client i, from the await it is suspended on
StreamerStep(i) ==
    LET st == streamers[i] IN
    /\ st.pc # "done"
    /\ CASE st.pc = "start" ->
              \* llm_stop_flags[session] = False; stream_llm reaches its first
              \* yield without suspending
              /\ llm_stop_flags' = FALSE
              /\ NextToken(i, st, FALSE)
              /\ UNCHANGED <<vPlay, llm_busy>>
         [] st.pc = "next" ->
              /\ NextToken(i, st, llm_stop_flags)
              /\ UNCHANGED <<vPlay, llm_busy, llm_stop_flags>>
         [] st.pc = "sent_send" ->
              \* enqueue_sentence_for_tts(session, clean_sentence_for_tts(s))
              /\ IF clean_sentence_for_tts(Head(st.out)) # <<>>
                 THEN Enqueue(LlmSrc(i)) ELSE UNCHANGED vPlay
              /\ streamers' = [streamers EXCEPT ![i] =
                     [st EXCEPT !.out = Tail(st.out),
                                !.pc = IF Tail(st.out) # <<>> THEN "sent_send" ELSE "next"]]
              /\ UNCHANGED <<llm_busy, llm_stop_flags>>
         [] st.pc = "flush_send" ->
              /\ IF clean_sentence_for_tts(Strip(st.buf)) # <<>>
                 THEN Enqueue(LlmSrc(i)) ELSE UNCHANGED vPlay
              /\ streamers' = [streamers EXCEPT ![i] =
                     [st EXCEPT !.buf = <<>>, !.pc = "done_send", !.brk = FALSE]]
              /\ UNCHANGED <<llm_busy, llm_stop_flags>>
         [] OTHER ->   \* "done_send": llm_done sent; llm_busy[session] = False
              /\ llm_busy' = FALSE
              /\ streamers' = [streamers EXCEPT ![i] = DoneStreamer(st)]
              /\ UNCHANGED <<vPlay, llm_stop_flags>>
    /\ evt' = Did("step")
    /\ UNCHANGED <<tts_cancel_events, assistant_is_speaking, vWiz, vRev, vPend, procs,
                   lastSent, submitted, nInputs, vBack>>

\* ------------------------------------------------------------------------
\* process_gdd_wizard, handle_text_message, the websocket loop, the timers
\* ------------------------------------------------------------------------
\* any(p in normalized for p in activation_phrases)
IsActivation(t) == t \in {"activate wizard", "activate wizard and go next"}
\* "go next" in normalized or normalized == "next"
IsGoNext(t) ==
    t \in {"go next", "activate wizard and go next", "go next and finish gdd"}
\* The word count below which main.py rejects a spoken wizard answer:
\* if len(raw_text.split()) < 3
MinAnswerWords == 3
\* raw_text.lower().strip() in noise
IsNoise(t) == t \in {".", "uh", "um", ""}
\* len(text.split())
Words(t) ==
    CASE t = "" -> 0
      [] t \in {"hello", "uh", "um", "."} -> 1
      [] t = "a puzzle game" -> 3
      [] t \in {"activate wizard and go next", "go next and finish gdd",
                "finish gdd and export gdd"} -> 5
      [] OTHER -> 2

Range(f) == {f[i] : i \in DOMAIN f}

\* task = pending_review_task.get(session); if task and not task.done(): task.cancel()
ReviewCancelled(rs) ==
    IF pending_review_task # 0 /\ rs[pending_review_task].pc # "done"
    THEN [rs EXCEPT ![pending_review_task].cancelReq = TRUE]
    ELSE rs

\* A handler that returns: the websocket loop waits for the next message, a
\* submit_after_delay task is done.
Returned(p) == IF p = 1 THEN MainProc ELSE DoneProc

\* A handler without the check of llm_busy
NeverBlocks == FALSE

\* if llm_busy.get(session): skip
BusyBlocks == llm_busy

\* The chat path once process_gdd_wizard has returned False: the check of
\* llm_busy and llm_busy[session] = True, up to the echo of the text
ChatBranch(p, t) ==
    /\ IF BusyBlocks
       THEN /\ procs' = [procs EXCEPT ![p] = Returned(p)]
            /\ evt' = Did("drop")
            /\ UNCHANGED llm_busy
       ELSE /\ llm_busy' = TRUE
            /\ procs' = [procs EXCEPT ![p].pc = "echo"]
            /\ evt' = Did("step")
    /\ UNCHANGED <<vPlay, tts_cancel_events, assistant_is_speaking, llm_stop_flags,
                   streamers, vWiz, vRev, lastSent, finishers, exporters, quality>>

\* "INTERRUPT ANY ACTIVE LLM/TTS" of the ACTIVATE branch, up to stop_all
ActivateBranch(p, t) ==
    /\ llm_stop_flags' = TRUE
    /\ tts_cancel_events' = TRUE
    /\ cancel_tts_generation
    /\ workers' = WorkerCancelled(workers)
    /\ assistant_is_speaking' = FALSE
    /\ streamers' = Interrupted("act")
    /\ procs' = [procs EXCEPT ![p].pc = "act_stop"]
    /\ evt' = Did("step")
    /\ UNCHANGED <<tts_playback_task, nextSid, llm_busy, vWiz, vRev, lastSent,
                   finishers, exporters, quality>>

\* The speech of the question being left, not yet handed to ws.send_bytes
Superseded(e) ==
    IF e.src = WizSrc(gdd_wizard_stage) THEN [e EXCEPT !.mark = "next"] ELSE e

\* What GO NEXT does to the playback queue and its worker
GoNextPlayback ==
    /\ tts_sentence_queue' =
           [k \in DOMAIN tts_sentence_queue |-> Superseded(tts_sentence_queue[k])]
    /\ workers' = [w \in DOMAIN workers |->
                      IF workers[w].pc = "gen"
                      THEN [workers[w] EXCEPT !.cur = Superseded(@)]
                      ELSE workers[w]]
    /\ UNCHANGED <<tts_gen_tasks, tts_playback_task, nextSid, tts_cancel_events,
                   assistant_is_speaking>>

\* A GO NEXT that advances from every stage
NeverPast(stage) == FALSE

\* if stage >= len(QUESTIONS)
PastLast(stage) == stage >= NumQuestions

\* The GO NEXT branch up to its first send
GoNextBranch(p, t) ==
    LET stage == gdd_wizard_stage + 1 IN
    /\ IF PastLast(stage)
       THEN /\ procs' = [procs EXCEPT ![p] = Returned(p)]
            /\ evt' = Did("gonext")
            /\ UNCHANGED <<vPlay, tts_cancel_events, assistant_is_speaking, vWiz, vRev>>
       ELSE /\ reviews' = ReviewCancelled(reviews)
            /\ pending_review_task' = 0
            /\ gdd_wizard_stage' = stage
            /\ gdd_answer_buffer' = <<>>
            /\ procs' = [procs EXCEPT ![p].pc = "gn_q", ![p].n = stage]
            /\ GoNextPlayback
            /\ evt' = Did("gonext")
            /\ UNCHANGED gdd_wizard_active
    /\ UNCHANGED <<llm_stop_flags, llm_busy, streamers, lastSent, finishers, exporters,
                   quality>>

\* The SAVE ANSWER branch up to the send of wizard_answer
AnswerBranch(p, t) ==
    /\ IF IsNoise(t)
       THEN /\ procs' = [procs EXCEPT ![p] = Returned(p)]
            /\ UNCHANGED reviews
       ELSE /\ reviews' = ReviewCancelled(reviews)
            /\ procs' = [procs EXCEPT ![p].pc = "ans_send", ![p].text = t]
    /\ evt' = Did("step")
    /\ UNCHANGED <<vPlay, tts_cancel_events, assistant_is_speaking, llm_stop_flags,
                   llm_busy, streamers, vWiz, pending_review_task, lastSent,
                   finishers, exporters, quality>>

\* re.search(r"\b(finish gdd|generate gdd|complete gdd)\b", normalized)
IsFinish(t) ==
    t \in {"finish gdd", "go next and finish gdd", "finish gdd and export gdd"}

\* The FINISH branch: asyncio.create_task(_finish()); return True
FinishBranch(p, t) ==
    /\ finishers' = Append(finishers, [NewFinisher EXCEPT !.gen = Len(starters)])
    /\ procs' = [procs EXCEPT ![p] = Returned(p)]
    /\ evt' = Did("finish")
    /\ UNCHANGED <<vPlay, tts_cancel_events, assistant_is_speaking, llm_stop_flags,
                   llm_busy, streamers, vWiz, vRev, lastSent, exporters, quality>>

\* any(p in normalized for p in ("export gdd", "export the gdd",
\* "download gdd", "export document"))
IsExport(t) == t \in {"export gdd", "finish gdd and export gdd"}

\* The EXPORT branch: without a backend session id a wizard_notice and
\* return True, else asyncio.create_task(_export()); return True
ExportBranch(p, t) ==
    /\ UNCHANGED quality
    /\ exporters' = IF gdd_session_map = "" THEN exporters
                    ELSE Append(exporters, NewExporter)
    /\ procs' = [procs EXCEPT ![p] = Returned(p)]
    /\ evt' = Did("export")
    /\ UNCHANGED <<vPlay, tts_cancel_events, assistant_is_speaking, llm_stop_flags,
                   llm_busy, streamers, vWiz, vRev, lastSent, finishers>>

\* A process_gdd_wizard that tests FINISH before GO NEXT
FinishBeforeGoNext(p, t) ==
    IF IsActivation(t) THEN ActivateBranch(p, t)
    ELSE IF gdd_wizard_active /\ IsFinish(t) THEN FinishBranch(p, t)
    ELSE IF gdd_wizard_active /\ IsGoNext(t) THEN GoNextBranch(p, t)
    ELSE IF IsExport(t) THEN ExportBranch(p, t)
    ELSE IF gdd_wizard_active THEN AnswerBranch(p, t)
    ELSE ChatBranch(p, t)

\* A process_gdd_wizard without its SAVE ANSWER branch
AnswersSentToChat(p, t) ==
    IF IsActivation(t) THEN ActivateBranch(p, t)
    ELSE IF gdd_wizard_active /\ IsGoNext(t) THEN GoNextBranch(p, t)
    ELSE IF gdd_wizard_active /\ IsFinish(t) THEN FinishBranch(p, t)
    ELSE IF IsExport(t) THEN ExportBranch(p, t)
    ELSE ChatBranch(p, t)

\* process_gdd_wizard(ws, session, t) called by p, from its entry to its
\* first await; when it returns False the caller goes on to the chat path
\* in the same step.
WizEnter(p, t) ==
    IF IsActivation(t) THEN ActivateBranch(p, t)
    ELSE IF gdd_wizard_active /\ IsGoNext(t) THEN GoNextBranch(p, t)
    ELSE IF gdd_wizard_active /\ IsFinish(t) THEN FinishBranch(p, t)
    ELSE IF IsExport(t) THEN ExportBranch(p, t)
    ELSE IF gdd_wizard_active THEN AnswerBranch(p, t)
    ELSE ChatBranch(p, t)

\* msg = await ws.receive() with a {"type": "text"} message
RecvText ==
    /\ procs[1].pc = "recv"
    /\ nInputs < MaxInputs
    /\ \E t \in Texts : WizEnter(1, t)
    /\ nInputs' = nInputs + 1
    /\ UNCHANGED <<vPend, submitted, gdd_session_map, starters, session_store>>

\* msg = await ws.receive() with a {"type": "stop_llm"} message
RecvStop ==
    /\ procs[1].pc = "recv"
    /\ nInputs < MaxInputs
    /\ llm_stop_flags' = TRUE
    /\ cancel_tts_generation
    /\ workers' = WorkerCancelled(workers)
    /\ tts_cancel_events' = FALSE
    /\ assistant_is_speaking' = FALSE
    /\ streamers' = Interrupted("stop")
    /\ procs' = [procs EXCEPT ![1].pc = "stop_send"]
    /\ nInputs' = nInputs + 1
    /\ evt' = Did("step")
    /\ UNCHANGED <<tts_playback_task, nextSid, llm_busy, vWiz, vRev, vPend, lastSent,
                   submitted, vBack>>

\* submit_after_delay after "await asyncio.sleep(delay)"
TimerWake(p) ==
    /\ p > 1
    /\ procs[p].pc = "sleep"
    /\ IF procs[p].cancelReq \/ pending_user_text = ""
       THEN /\ procs' = [procs EXCEPT ![p] = DoneProc]
            /\ evt' = Did("step")
            /\ UNCHANGED <<vPlay, tts_cancel_events, assistant_is_speaking,
                           llm_stop_flags, llm_busy, streamers, vWiz, vRev, lastSent,
                           submitted, finishers, exporters, quality>>
       ELSE /\ WizEnter(p, pending_user_text)
            /\ submitted' = [submitted EXCEPT ![Len(submitted)] = @ + 1]
    /\ UNCHANGED <<vPend, nInputs, gdd_session_map, starters, session_store>>

\* A handler p resumes from the send it is suspended on.  CancelledError is
\* swallowed where the send sits in a bare "except:", and leaves the handler
\* (and submit_after_delay) elsewhere.
ProcStep(p) ==
    LET pr == procs[p] IN
    /\ pr.pc \in {"act_stop", "act_q", "gn_q", "ans_send", "echo", "stop_send"}
    /\ CASE pr.pc = "act_stop" ->
              /\ tts_cancel_events' = FALSE
              /\ assistant_is_speaking' = FALSE
              /\ gdd_wizard_active' = TRUE
              /\ gdd_wizard_stage' = 0
              /\ gdd_answer_buffer' = <<>>
              /\ reviews' = ReviewCancelled(reviews)
              /\ pending_review_task' = 0
              \* asyncio.create_task(_start()) comes before the next send
              /\ procs' = [procs EXCEPT ![p].pc = "act_q", ![p].cancelReq = FALSE]
              /\ evt' = Did("step")
              /\ UNCHANGED <<vPlay, llm_busy, streamers>>
         [] pr.pc = "act_q" ->
              \* the sends of "final" (bare except), then of wizard_notice,
              \* llm_done and wizard_question (except Exception), then the
              \* enqueue of QUESTIONS[0]
              /\ \/ /\ pr.cancelReq
                    /\ procs' = [procs EXCEPT ![p] = DoneProc]
                    /\ evt' = Did("step")
                    /\ UNCHANGED vPlay
                 \/ /\ Enqueue(WizSrc(0))
                    /\ procs' = [procs EXCEPT ![p] = Returned(p)]
                    /\ evt' = Did("act_done")
              /\ UNCHANGED <<tts_cancel_events, assistant_is_speaking, llm_busy,
                             streamers, vWiz, vRev>>
         [] pr.pc = "gn_q" ->
              /\ Enqueue(WizSrc(pr.n))
              /\ procs' = [procs EXCEPT ![p] = Returned(p)]
              /\ evt' = Did("step")
              /\ UNCHANGED <<tts_cancel_events, assistant_is_speaking, llm_busy,
                             streamers, vWiz, vRev>>
         [] pr.pc = "ans_send" ->
              /\ IF pr.cancelReq
                 THEN UNCHANGED <<gdd_answer_buffer, vRev>>
                 ELSE /\ gdd_answer_buffer' = Append(gdd_answer_buffer, pr.text)
                      /\ reviews' = Append(reviews, NewReview)
                      /\ pending_review_task' = Len(reviews) + 1
              /\ procs' = [procs EXCEPT ![p] = Returned(p)]
              /\ evt' = Did("step")
              /\ UNCHANGED <<vPlay, tts_cancel_events, assistant_is_speaking, llm_busy,
                             streamers, gdd_wizard_active, gdd_wizard_stage>>
         [] pr.pc = "echo" ->
              \* asyncio.create_task(stream_llm_to_client(ws, session, text))
              /\ streamers' = IF pr.cancelReq THEN streamers
                              ELSE Append(streamers, NewStreamer)
              /\ procs' = [procs EXCEPT ![p] = Returned(p)]
              /\ evt' = Did("step")
              /\ UNCHANGED <<vPlay, tts_cancel_events, assistant_is_speaking, llm_busy,
                             vWiz, vRev>>
         [] OTHER ->   \* "stop_send": stop_all sent; llm_busy[session] = False
              /\ llm_busy' = FALSE
              /\ procs' = [procs EXCEPT ![p] = Returned(p)]
              /\ evt' = Did("step")
              /\ UNCHANGED <<vPlay, tts_cancel_events, assistant_is_speaking, streamers,
                             vWiz, vRev>>
    /\ starters' = IF pr.pc = "act_stop" THEN Append(starters, NewStarter) ELSE starters
    /\ UNCHANGED <<llm_stop_flags, vPend, lastSent, submitted, nInputs, gdd_session_map,
                   finishers, exporters, quality, session_store>>

\* ------------------------------------------------------------------------
\* Recogniser callbacks
\* ------------------------------------------------------------------------
\* An on_final without the duplicate check
NeverDuplicate(t) == FALSE

\* if pending_user_text.get(session) == raw_text: return
IsDuplicateFinal(t) == pending_user_text = t

\* An on_final that leaves the running timer alone
TimerKept(ps) == ps

\* existing = completion_timer.get(session); if existing and not
\* existing.done(): existing.cancel()
TimerCancelled(ps) ==
    IF completion_timer # 0 /\ ps[completion_timer].pc # "done"
    THEN [ps EXCEPT ![completion_timer].cancelReq = TRUE]
    ELSE ps

\* on_final(evt) with evt.result.text = t
on_final(t) ==
    /\ nInputs < MaxInputs
    /\ nInputs' = nInputs + 1
    /\ IF IsNoise(t)
       THEN /\ evt' = Did("step")
            /\ UNCHANGED <<vPend, reviews, procs, submitted>>
       ELSE IF IsDuplicateFinal(t)
       THEN /\ evt' = Heard("dup", t)
            /\ UNCHANGED <<vPend, reviews, procs, submitted>>
       ELSE /\ pending_user_text' = t
            /\ submitted' = Append(submitted, 0)
            /\ reviews' = ReviewCancelled(reviews)
            /\ procs' = Append(TimerCancelled(procs), NewTimer)
            /\ completion_timer' = Len(procs) + 1
            /\ evt' = Heard("final", t)
    /\ UNCHANGED <<vPlay, tts_cancel_events, assistant_is_speaking, llm_stop_flags,
                   llm_busy, streamers, vWiz, pending_review_task, lastSent, vBack>>

OnFinal == \E t \in FinalTexts : on_final(t)

\* assistant_is_speaking.get(session, False) and text not in ("", ".", "uh", "um")
BargeIn(t) == assistant_is_speaking /\ t \notin {"", ".", "uh", "um"}

\* on_partial(evt) with evt.result.text = t
on_partial(t) ==
    /\ nInputs < MaxInputs
    /\ nInputs' = nInputs + 1
    /\ reviews' = IF pending_user_text # t THEN ReviewCancelled(reviews) ELSE reviews
    /\ pending_review_task' = 0
    /\ IF BargeIn(t)
       THEN /\ llm_stop_flags' = TRUE
            /\ tts_cancel_events' = TRUE
            /\ cancel_tts_generation
            /\ workers' = WorkerCancelled(workers)
            /\ assistant_is_speaking' = FALSE
            /\ streamers' = Interrupted("barge")
            /\ evt' = Did("barge")
       ELSE /\ evt' = Did("step")
            /\ UNCHANGED <<llm_stop_flags, tts_cancel_events, tts_sentence_queue,
                           tts_gen_tasks, workers, assistant_is_speaking, streamers>>
    /\ UNCHANGED <<tts_playback_task, nextSid, llm_busy, vWiz, vPend, procs, lastSent,
                   submitted, vBack>>

OnPartial == \E t \in PartialTexts : on_partial(t)

\* ------------------------------------------------------------------------
\* delayed_review
\* ------------------------------------------------------------------------
RECURSIVE SumWords(_)
SumWords(buf) == IF buf = <<>> THEN 0 ELSE Words(Head(buf)) + SumWords(Tail(buf))

\* is_incomplete_answer on the joined answer: the texts of the model carry
\* no hesitation marker and no end mark, so only the word count decides
is_incomplete_answer(buf) == SumWords(buf) <= 2

\* One step of delayed_review task r
ReviewStep(r) ==
    LET rv == reviews[r] IN
    /\ rv.pc # "done"
    /\ CASE rv.pc = "sleep" ->
              /\ reviews' = [reviews EXCEPT ![r] =
                     IF rv.cancelReq \/ pending_user_text \notin Range(gdd_answer_buffer)
                     THEN DoneReview
                     ELSE IF is_incomplete_answer(gdd_answer_buffer)
                     THEN [rv EXCEPT !.pc = "nudge_send"]
                     ELSE [rv EXCEPT !.pc = "llm"]]
              /\ UNCHANGED vPlay
         [] rv.pc = "nudge_send" ->
              \* ai_review sent; the nudge is spoken unless the assistant speaks
              /\ reviews' = [reviews EXCEPT ![r] = DoneReview]
              /\ IF ~rv.cancelReq /\ ~assistant_is_speaking
                 THEN Enqueue(ReviewSrc) ELSE UNCHANGED vPlay
         [] OTHER ->   \* "llm": run_llm_short_review, ai_review sent, enqueue
              /\ reviews' = [reviews EXCEPT ![r] = DoneReview]
              /\ IF ~rv.cancelReq THEN Enqueue(ReviewSrc) ELSE UNCHANGED vPlay
    /\ evt' = Did("step")
    /\ UNCHANGED <<tts_cancel_events, assistant_is_speaking, llm_stop_flags, llm_busy,
                   streamers, vWiz, pending_review_task, vPend, procs, lastSent,
                   submitted, nInputs, vBack>>

\* ------------------------------------------------------------------------
\* gdd_api.py: the backend session of the wizard
\* ------------------------------------------------------------------------
Max(a, b) == IF a >= b THEN a ELSE b

\* POST /gdd/start
gdd_start == [exists |-> TRUE, index |-> 0, answers |-> <<>>, resp |-> "ok", q |-> 0]

\* POST /gdd/next on the session d
gdd_next(d) ==
    IF ~d.exists THEN [d EXCEPT !.resp = "404"]
    ELSE IF d.index >= NumQuestions THEN [d EXCEPT !.resp = "done"]
    ELSE [d EXCEPT !.resp = "ok", !.q = Max(@, d.index), !.index = d.index + 1]

\* while len(answers) <= q_index: answers.append({"question":
\* QUESTIONS[len(answers)], "answer": ""}); an entry holds the index of its
\* question and the number of texts joined into its answer
RECURSIVE Padded(_, _)
Padded(answers, q_index) ==
    IF Len(answers) <= q_index
    THEN Padded(Append(answers, [question |-> Len(answers), answer |-> 0]), q_index)
    ELSE answers

\* POST /gdd/answer on the session d, with a non-empty answer
gdd_answer(d) ==
    LET q_index == IF d.index = 0 THEN 0 ELSE d.index - 1
        answers == Padded(d.answers, q_index)
    IN  IF ~d.exists THEN [d EXCEPT !.resp = "404"]
        ELSE IF q_index >= NumQuestions THEN [d EXCEPT !.resp = "done"]
        ELSE [d EXCEPT !.resp = "ok",
                       !.q = Max(@, Len(answers) - 1),
                       !.answers = [answers EXCEPT ![q_index + 1].answer = @ + 1]]

RECURSIVE Recorded(_)
Recorded(answers) ==
    IF answers = <<>> THEN 0 ELSE Head(answers).answer + Recorded(Tail(answers))

\* A client of the backend asks for the next question
GddNext ==
    /\ session_store' = gdd_next(session_store)
    /\ evt' = Did("api_next")
    /\ UNCHANGED <<vPlay, tts_cancel_events, assistant_is_speaking, llm_stop_flags,
                   llm_busy, streamers, vWiz, vRev, vPend, procs, lastSent, submitted,
                   nInputs, gdd_session_map, starters, finishers, exporters, quality>>

\* A client of the backend posts an answer
GddAnswer ==
    /\ Recorded(session_store.answers) < MaxApiAnswers
    /\ session_store' = gdd_answer(session_store)
    /\ evt' = Did("api_answer")
    /\ UNCHANGED <<vPlay, tts_cancel_events, assistant_is_speaking, llm_stop_flags,
                   llm_busy, streamers, vWiz, vRev, vPend, procs, lastSent, submitted,
                   nInputs, gdd_session_map, starters, finishers, exporters, quality>>

\* The _start task s of the ACTIVATE branch resumes from its POST /gdd/start:
\* status 200, or another status or an exception
StartStep(s) ==
    /\ starters[s].pc = "post"
    /\ \/ /\ starters' = [starters EXCEPT ![s] = DoneStarter("ok")]
          /\ gdd_session_map' = "sid"
          /\ session_store' = gdd_start
       \/ /\ starters' = [starters EXCEPT ![s] = DoneStarter("fail")]
          /\ UNCHANGED <<gdd_session_map, session_store>>
    /\ evt' = Did("step")
    /\ UNCHANGED <<vPlay, tts_cancel_events, assistant_is_speaking, llm_stop_flags,
                   llm_busy, streamers, vWiz, vRev, vPend, procs, lastSent, submitted,
                   nInputs, finishers, exporters, quality>>

\* A _finish without its finally block (and without line 599)
FinishReturns(f, how) ==
    /\ finishers' = [finishers EXCEPT ![f] = DoneFinisher(how)]
    /\ UNCHANGED gdd_wizard_active

\* The finally block of _finish; the task is done after it
FinishFinally(f, how) ==
    /\ finishers' = [finishers EXCEPT ![f] = DoneFinisher(how)]
    /\ gdd_wizard_active' = FALSE

\* One step of the _finish task f, from the await it is suspended on; a send
\* that raises leads to the except block and its own send
FinishStep(f) ==
    LET fn == finishers[f] IN
    /\ fn.pc # "done"
    /\ CASE fn.pc = "start" ->
              /\ finishers' = [finishers EXCEPT ![f].pc =
                     IF gdd_session_map = "" THEN "nosid_send" ELSE "post"]
              /\ UNCHANGED vWiz
         [] fn.pc = "nosid_send" ->
              \/ /\ FinishFinally(f, "nosid")
                 /\ gdd_wizard_stage' = 0
                 /\ UNCHANGED gdd_answer_buffer
              \/ /\ finishers' = [finishers EXCEPT ![f].pc = "exc_send"]
                 /\ UNCHANGED vWiz
         [] fn.pc = "post" ->
              \* POST /gdd/finish: 200, another status, or an exception
              /\ \E r \in {"ok_send", "err_send", "exc_send"} :
                     finishers' = [finishers EXCEPT ![f].pc = r]
              /\ UNCHANGED vWiz
         [] fn.pc \in {"ok_send", "err_send"} ->
              \/ /\ FinishFinally(f, IF fn.pc = "ok_send" THEN "ok" ELSE "err")
                 /\ UNCHANGED <<gdd_wizard_stage, gdd_answer_buffer>>
              \/ /\ finishers' = [finishers EXCEPT ![f].pc = "exc_send"]
                 /\ UNCHANGED vWiz
         [] OTHER ->   \* "exc_send": the send of the except block
              /\ FinishFinally(f, "exc")
              /\ UNCHANGED <<gdd_wizard_stage, gdd_answer_buffer>>
    /\ evt' = Did("step")
    /\ UNCHANGED <<vPlay, tts_cancel_events, assistant_is_speaking, llm_stop_flags,
                   llm_busy, streamers, vRev, vPend, procs, lastSent, submitted, nInputs,
                   gdd_session_map, starters, exporters, quality, session_store>>

\* The _export task x resumes from its POST /gdd/export: status 200 and
\* gdd_export_ready, another status and a wizard_notice, or an exception
\* and the wizard_notice of the except block
ExportStep(x) ==
    /\ exporters[x].pc = "post"
    /\ \E how \in {"ok", "err", "exc"} :
           exporters' = [exporters EXCEPT ![x] = DoneExporter(how)]
    /\ UNCHANGED quality
    /\ evt' = Did("step")
    /\ UNCHANGED <<vPlay, tts_cancel_events, assistant_is_speaking, llm_stop_flags,
                   llm_busy, streamers, vWiz, vRev, vPend, procs, lastSent, submitted,
                   nInputs, gdd_session_map, starters, finishers, session_store>>

\* ------------------------------------------------------------------------
\* The session
\* ------------------------------------------------------------------------
Worker == \E w \in DOMAIN workers : WorkerStep(w)
Streamer == \E i \in DOMAIN streamers : StreamerStep(i)
Timer == \E p \in DOMAIN procs : TimerWake(p)
Handler == \E p \in DOMAIN procs : ProcStep(p)
Review == \E r \in DOMAIN reviews : ReviewStep(r)

Next ==
    \/ RecvText
    \/ RecvStop
    \/ OnFinal
    \/ OnPartial
    \/ Timer
    \/ Handler
    \/ Streamer
    \/ GenComplete
    \/ Worker
    \/ Review

Spec == Init /\ [][Next]_vars

\* ------------------------------------------------------------------------
\* The wizard from its activation on, with the backend
\* ------------------------------------------------------------------------
\* The state in which the ACTIVATE branch returns when nothing else has
\* happened: QUESTIONS[0] is enqueued and _start is in flight
InitWizard ==
    /\ tts_sentence_queue = <<[sid |-> 1, src |-> WizSrc(0), mark |-> "live"]>>
    /\ tts_gen_tasks = <<[sid |-> 1, st |-> "run"]>>
    /\ tts_cancel_events = FALSE
    /\ workers = <<NewWorker>>
    /\ tts_playback_task = 1
    /\ assistant_is_speaking = FALSE
    /\ llm_stop_flags = TRUE
    /\ llm_busy = FALSE
    /\ streamers = <<>>
    /\ gdd_wizard_active = TRUE
    /\ gdd_wizard_stage = 0
    /\ gdd_answer_buffer = <<>>
    /\ reviews = <<>>
    /\ pending_review_task = 0
    /\ pending_user_text = ""
    /\ completion_timer = 0
    /\ procs = <<MainProc>>
    /\ nextSid = 2
    /\ lastSent = NoneSent
    /\ submitted = <<>>
    /\ evt = Did("act_done")
    /\ nInputs = 1
    /\ gdd_session_map = ""
    /\ starters = <<NewStarter>>
    /\ finishers = <<>>
    /\ exporters = <<>>
    /\ quality = NoQuality
    /\ session_store = NoSession

WizardTexts == {"go next", "finish gdd", "hello"}

\* msg = await ws.receive() with a {"type": "text"} message, in wizard mode
WizardText ==
    /\ procs[1].pc = "recv"
    /\ gdd_wizard_active
    /\ \E t \in WizardTexts :
          /\ IsFinish(t) => Len(finishers) < MaxFinish
          /\ t = "hello" => Len(reviews) < MaxAnswers
          /\ WizEnter(1, t)
    /\ UNCHANGED <<vPend, submitted, nInputs, gdd_session_map, starters, session_store>>

Start == \E s \in DOMAIN starters : StartStep(s)
Finish == \E f \in DOMAIN finishers : FinishStep(f)

WizardNext ==
    \/ WizardText
    \/ Handler
    \/ Start
    \/ Finish
    \/ GddNext
    \/ GddAnswer

WizardSpec == InitWizard /\ [][WizardNext]_vars

\* Every task that has been created is run
WizardLive == WizardSpec /\ WF_vars(Start) /\ WF_vars(Finish) /\ WF_vars(Handler)

\* ------------------------------------------------------------------------
\* Properties
\* ------------------------------------------------------------------------
Alive(tasks) == {i \in DOMAIN tasks : tasks[i].pc # "done"}

\* C1: audio is handed to ws.send_bytes in enqueue order: every audio sent
\* belongs to a sentence enqueued after the sentence of the audio sent before
\* it, whatever order the synthesis tasks complete in.
C1_AudioInEnqueueOrder ==
    [][lastSent' # lastSent => lastSent'.sid > lastSent.sid]_vars

\* One audio was sent, the worker waits for the synthesis of the next
\* sentence, and the synthesis of the sentence after it is already complete
C1_LaterSynthesisFirst ==
    /\ lastSent.sid >= 1
    /\ \E w \in DOMAIN workers :
          /\ workers[w].pc = "gen"
          /\ workers[w].cur.st = "run"
          /\ workers[w].cur.sid > lastSent.sid
    /\ tts_gen_tasks # <<>>
    /\ tts_gen_tasks[1].st = "ok"

\* C2: a handler goes on to the echo and the launch of a streamer only from a
\* step that found llm_busy false and set it true; a streamer is launched
\* only by a handler leaving that echo, one per handler; so an utterance
\* that finds llm_busy true is dropped, and two utterances handled back to
\* back launch at most one streamer.
C2_BusyCheckedAndSetInOneStep ==
    [][ /\ \A p \in DOMAIN procs :
              (procs[p].pc # "echo" /\ procs'[p].pc = "echo") => (~llm_busy /\ llm_busy')
        /\ (Len(streamers') > Len(streamers)) =>
              /\ Len(streamers') = Len(streamers) + 1
              /\ \E p \in DOMAIN procs : procs[p].pc = "echo" /\ procs'[p].pc # "echo"
      ]_vars

\* An utterance was dropped while the handler of another one was still at
\* its echo, before any streamer was launched
C2_DroppedWhileBusy ==
    /\ evt.k = "drop"
    /\ streamers = <<>>
    /\ \E p \in DOMAIN procs : procs[p].pc = "echo"

\* C3: at most one stream_llm_to_client task is alive at any time.
C3_AtMostOneStreamer == Cardinality(Alive(streamers)) <= 1

C5_NoAudioOfCancelledTurn == ~(lastSent.by # "none" /\ lastSent.mid)

\* C6: a barge-in partial, in the step of on_partial itself, sets
\* llm_stop_flags, empties the playback queue and its synthesis tasks and
\* clears assistant_is_speaking; and the streamer it interrupted emits no
\* further token or sentence: all it may still do is end.
C6_BargeInStopsTheTurn ==
    [][ /\ (nInputs' # nInputs /\ evt'.k = "barge") =>
              /\ llm_stop_flags'
              /\ tts_sentence_queue' = <<>>
              /\ tts_gen_tasks' = <<>>
              /\ ~assistant_is_speaking'
        /\ \A i \in DOMAIN streamers :
              streamers[i].cz = "barge" =>
                  streamers'[i].pc \in {streamers[i].pc, "done_send", "done"}
      ]_vars

C8_DuplicateFinalIgnored ==
    [][ /\ (nInputs' # nInputs /\ evt'.k \in {"dup", "final"}
                               /\ evt'.t = pending_user_text) =>
              /\ procs' = procs
              /\ reviews' = reviews
              /\ completion_timer' = completion_timer
              /\ pending_user_text' = pending_user_text
              /\ submitted' = submitted
        /\ \A f \in DOMAIN submitted' : submitted'[f] <= 1
      ]_vars

\* The same final received three times in a row, classified once
C8_TwoDuplicates ==
    /\ evt.k = "dup"
    /\ nInputs = 3
    /\ submitted = <<1>>

\* C9: when the ACTIVATE branch is through, the wizard is active and
\* QUESTIONS[0] is the sentence enqueued last; and no audio sent after an
\* activation belongs to the reply the activation interrupted.
C9_ActivationSpeaksFirstQuestion ==
    /\ evt.k = "act_done" =>
          /\ gdd_wizard_active
          /\ tts_sentence_queue # <<>>
          /\ tts_sentence_queue[Len(tts_sentence_queue)].src = WizSrc(0)
    /\ lastSent.by # "act"

\* C10: no audio is sent of a question that "go next" has left while its
\* speech was queued or being synthesised.
C10_GoNextCancelsQuestionSpeech == lastSent.mark # "next"

\* ------------------------------------------------------------------------
\* A session driven by voice alone, every created task being run
\* ------------------------------------------------------------------------
VoiceNext ==
    \/ OnFinal
    \/ Timer
    \/ Handler
    \/ Streamer
    \/ GenComplete
    \/ Worker
    \/ Review

\* asyncio runs every task that is ready; the recogniser may fall silent
VoiceLive ==
    /\ Init
    /\ [][VoiceNext]_vars
    /\ WF_vars(Timer)
    /\ WF_vars(Handler)
    /\ WF_vars(Streamer)
    /\ WF_vars(GenComplete)
    /\ WF_vars(Worker)
    /\ WF_vars(Review)

\* C11: the wizard stage stays within 0 .. len(QUESTIONS) - 1, and a "go next"
\* at the last question is answered with a notice only: stage, answers, queue
\* and review are left as they are, however often it is repeated.  The
\* backend index stays within 0 .. len(QUESTIONS); gdd_next advances it while
\* questions remain and answers "done" once the last one has been issued.
\* QUESTIONS is never indexed out of range.
C11_StageAndIndexInRange ==
    /\ [](/\ gdd_wizard_stage \in 0 .. NumQuestions - 1
          /\ session_store.index \in 0 .. NumQuestions
          /\ session_store.q \in -1 .. NumQuestions - 1
          /\ \A p \in DOMAIN procs :
                procs[p].pc = "gn_q" => procs[p].n \in 0 .. NumQuestions - 1
          /\ \A k \in DOMAIN tts_sentence_queue :
                tts_sentence_queue[k].src.kind = "wizard"
                    => tts_sentence_queue[k].src.n \in 0 .. NumQuestions - 1)
    /\ [][/\ evt'.k = "gonext" /\ gdd_wizard_stage = NumQuestions - 1
              => UNCHANGED <<vWiz, vPlay, vRev>> /\ procs' = procs
          /\ evt'.k = "api_next" /\ session_store.exists
              => IF session_store.index < NumQuestions
                 THEN /\ session_store'.resp = "ok"
                      /\ session_store'.index = session_store.index + 1
                 ELSE /\ session_store'.resp = "done"
                      /\ session_store'.index = session_store.index]_vars

\* "go next" has been said at the last question, after the backend issued
\* every question and answered "done"
C11_GoNextAtLastQuestion ==
    /\ gdd_wizard_stage = NumQuestions - 1
    /\ evt.k = "gonext"
    /\ procs[1].pc = "recv"
    /\ session_store.index = NumQuestions
    /\ session_store.resp = "done"

\* C12: once a finish command has been handled, gdd_wizard_active becomes
\* false, whether _finish found no backend session, got status 200 or
\* another status, or met an exception; the task ends with the wizard
\* inactive.
C12_FinishDeactivatesWizard ==
    /\ (evt.k = "finish") ~> ~gdd_wizard_active
    /\ \A f \in 1 .. MaxFinish :
          (f \in DOMAIN finishers)
              ~> (f \in DOMAIN finishers /\ finishers[f].pc = "done")
    /\ [][\A f \in DOMAIN finishers :
             finishers[f].pc # "done" /\ finishers'[f].pc = "done"
                 => ~gdd_wizard_active']_vars

\* A _finish task has ended through its except block
C12_FinishedAfterException ==
    \E f \in DOMAIN finishers :
        /\ finishers[f] = DoneFinisher("exc")
        /\ ~gdd_wizard_active

\* C13: whenever llm_busy becomes true it becomes false again, also when the
\* submit_after_delay task that set it is cancelled by a newer final
\* utterance.
C13_BusyEventuallyCleared == llm_busy ~> ~llm_busy

\* C14: once a turn has been told to stop (stop_llm, barge-in or wizard
\* activation), its streamer forwards no further token and extracts no
\* further sentence, whatever happens to llm_stop_flags afterwards.
C14_StoppedStreamerForwardsNothing ==
    [][\A i \in DOMAIN streamers :
          streamers[i].cz # "none" => streamers'[i].ntok <= streamers[i].ntok]_vars

\* C15: a streamer that left its loop because of a stop_llm request enqueues
\* nothing further: its leftover is not passed to enqueue_sentence_for_tts.
C15_NoFlushAfterHardStop ==
    [][\A i \in DOMAIN streamers :
          /\ streamers[i].brk
          /\ streamers[i].cz = "stop"
          /\ streamers[i].pc = "flush_send"
          /\ streamers'[i].pc # "flush_send"
          => nextSid' = nextSid]_vars

\* C16: the sentences of a turn started after a cancellation are played.
\* When the worker that the cancellation cancelled ends, every sentence then
\* queued was enqueued after that cancellation; those of a turn that no
\* cancellation has touched stay in the queue, to be sent by the next worker.
C16_CleanupKeepsNewTurn ==
    [][\A w \in DOMAIN workers :
          workers[w].cancelReq /\ workers[w].pc # "done" /\ workers'[w].pc = "done"
          => \A k \in DOMAIN tts_sentence_queue :
                \/ /\ tts_sentence_queue[k].src.kind = "llm"
                   /\ streamers[tts_sentence_queue[k].src.n].cz # "none"
                \/ \E j \in DOMAIN tts_sentence_queue' :
                       tts_sentence_queue'[j].sid = tts_sentence_queue[k].sid]_vars

\* C17: a worker whose await of an entry's synthesis was overtaken by a
\* cancellation sends no audio for that entry and leaves its loop: when it
\* resumes it goes to its exit, and takes no further entry.
C17_CancelledAwaitEndsTheLoop ==
    [][\A w \in DOMAIN workers :
          /\ workers[w].pc = "gen"
          /\ workers[w].cancelReq
          /\ \/ workers'[w].pc # "gen"
             \/ workers'[w].cur.sid # workers[w].cur.sid
          => /\ lastSent' = lastSent
             /\ workers'[w].pc \in {"vdone", "done"}]_vars

\* The synthesis task the worker takes next: the first that has not failed
RECURSIVE NextPlayable(_)
NextPlayable(g) ==
    IF g = <<>> THEN 0
    ELSE IF Head(g).st = "fail" THEN NextPlayable(Tail(g))
    ELSE Head(g).sid

\* C18: when the synthesis of a sentence fails and no cancellation is set,
\* the worker sends no audio for it and goes on with the following queued
\* sentences in order; audio is sent only for a synthesis that succeeded, and
\* the failure does not end the worker while sentences remain.
C18_FailedSynthesisIsSkipped ==
    /\ [](\A w \in DOMAIN workers : workers[w].pc = "send" => workers[w].cur.st = "ok")
    /\ [][\A w \in DOMAIN workers :
             /\ workers[w].pc = "gen"
             /\ ~workers[w].cancelReq
             /\ workers[w].cur.st = "fail"
             /\ \/ workers'[w].pc # "gen"
                \/ workers'[w].cur.sid # workers[w].cur.sid
             => /\ lastSent'.sid # workers[w].cur.sid
                /\ workers'[w].pc # "done"
                /\ ~tts_cancel_events /\ NextPlayable(tts_gen_tasks) # 0
                     => /\ workers'[w].pc \in {"gen", "send"}
                        /\ workers'[w].cur.sid = NextPlayable(tts_gen_tasks)]_vars

\* The worker has passed over a failed synthesis and sends the sentence that
\* follows it
C18_SkippedThenPlayed ==
    /\ evt.k = "skip"
    /\ \E w \in DOMAIN workers :
          /\ workers[w].pc = "send"
          /\ lastSent.sid = workers[w].cur.sid
          /\ workers[w].cur.sid > 1

\* C19: when the token stream raises, stream_llm_to_client catches the
\* error, sends the error token and goes on as at a normal end of stream: the
\* leftover is flushed, llm_done is sent and llm_busy becomes false; the task
\* ends by that path only.
C19_StreamErrorEndsNormally ==
    [][\A i \in DOMAIN streamers :
          /\ ~streamers[i].err /\ streamers'[i].err
                => streamers'[i].pc \in {"flush_send", "done_send"}
          /\ streamers[i].err /\ streamers[i].pc = "flush_send"
                               /\ streamers'[i].pc # "flush_send"
                => streamers'[i].pc = "done_send"
          /\ streamers[i].err /\ streamers[i].pc # "done" /\ streamers'[i].pc = "done"
                => streamers[i].pc = "done_send" /\ ~llm_busy']_vars

\* The stream of a reply raised after its first token: the error has been
\* caught, the leftover flushed, and the task is sending llm_done
C19_CaughtAfterFirstToken ==
    \E i \in DOMAIN streamers :
        /\ streamers[i].err
        /\ streamers[i].pc = "done_send"
        /\ streamers[i].ntok = 1
        /\ \E k \in DOMAIN tts_sentence_queue : tts_sentence_queue[k].src = LlmSrc(i)

\* C20: an utterance taken as a wizard answer is appended to
\* gdd_answer_buffer and recorded by the backend under the session's backend
\* id: with a backend session, the step that appends the answer also adds
\* it to the answers of the backend.
C20_AnswerReachesBackend ==
    [][/\ gdd_session_map = "sid"
       /\ session_store.exists
       /\ Len(gdd_answer_buffer') > Len(gdd_answer_buffer)
       => Recorded(session_store'.answers) > Recorded(session_store.answers)]_vars

\* ------------------------------------------------------------------------
\* Classification of committed utterances, with and without the wizard
\* ------------------------------------------------------------------------
Export == \E x \in DOMAIN exporters : ExportStep(x)

\* Utterances that hold one phrase, several phrases, or none
DispatchTexts ==
    {"activate wizard and go next", "go next and finish gdd",
     "finish gdd and export gdd", "go next", "finish gdd", "export gdd", "hello"}

DispatchFinal == \E t \in DispatchTexts : on_final(t)

DispatchNext ==
    \/ DispatchFinal
    \/ Timer
    \/ Handler
    \/ Start
    \/ Finish
    \/ Export

\* The session starts idle, or with the wizard just activated
DispatchSpec == (Init \/ InitWizard) /\ [][DispatchNext]_vars

\* C21: process_gdd_wizard runs exactly one branch per utterance, in the
\* priority order activation > go next (wizard active) > finish (wizard
\* active) > export > wizard answer (wizard active) > chat; an utterance
\* that matches several patterns triggers the first of them only, and a
\* go-next or finish phrase leaves stage and active flag alone while the
\* wizard is inactive.
C21_OneBranchByPriority ==
    [][\A p \in DOMAIN procs :
         LET t == pending_user_text
             expected ==
                 IF IsActivation(t) THEN "activate"
                 ELSE IF gdd_wizard_active /\ IsGoNext(t) THEN "gonext"
                 ELSE IF gdd_wizard_active /\ IsFinish(t) THEN "finish"
                 ELSE IF IsExport(t) THEN "export"
                 ELSE IF gdd_wizard_active THEN "answer"
                 ELSE "chat"
             taken ==
                 {b \in {"activate", "gonext", "finish", "export", "answer", "chat"} :
                    \/ b = "activate" /\ procs'[p].pc = "act_stop"
                    \/ b = "gonext" /\ evt'.k = "gonext"
                    \/ b = "finish" /\ Len(finishers') = Len(finishers) + 1
                    \/ b = "export" /\ evt'.k = "export"
                    \/ b = "answer" /\ procs'[p].pc = "ans_send"
                    \/ b = "chat" /\ (procs'[p].pc = "echo" \/ evt'.k = "drop")}
         IN  /\ p > 1
             /\ procs[p].pc = "sleep"
             /\ procs'[p].pc # "sleep"
             /\ ~procs[p].cancelReq
             => /\ taken = {expected}
                /\ ~gdd_wizard_active /\ ~IsActivation(t)
                   /\ (IsGoNext(t) \/ IsFinish(t))
                   => /\ UNCHANGED <<gdd_wizard_active, gdd_wizard_stage>>
                      /\ finishers' = finishers]_vars

\* An utterance with the go-next and the finish phrase has been taken as
\* go next: the stage advanced and no _finish task was created
C21_GoNextBeforeFinish ==
    /\ pending_user_text = "go next and finish gdd"
    /\ evt.k = "gonext"
    /\ finishers = <<>>
    /\ gdd_wizard_stage = 1

\* C22: in wizard mode an utterance with fewer words than the minimum is
\* discarded without effect; in particular gdd_answer_buffer never holds
\* an utterance of fewer than MinAnswerWords words.
C22_ShortUtteranceDiscarded ==
    \A i \in DOMAIN gdd_answer_buffer :
        Words(gdd_answer_buffer[i]) >= MinAnswerWords

\* ------------------------------------------------------------------------
\* Answers, recognitions and delayed reviews in wizard mode
\* ------------------------------------------------------------------------
ReviewTexts == {"hello", "go next"}

\* msg = await ws.receive() with a {"type": "text"} message: an answer or
\* "go next"
ReviewText ==
    /\ procs[1].pc = "recv"
    /\ gdd_wizard_active
    /\ \E t \in ReviewTexts :
          /\ t = "hello" => Len(reviews) < MaxReviews
          /\ IsGoNext(t) => gdd_wizard_stage < MaxNext
          /\ WizEnter(1, t)
    /\ UNCHANGED <<vPend, submitted, nInputs, gdd_session_map, starters, session_store>>

ReviewNext ==
    \/ ReviewText
    \/ OnFinal
    \/ OnPartial
    \/ Timer
    \/ Handler
    \/ Review

ReviewSpec == InitWizard /\ [][ReviewNext]_vars

\* C23: a pending delayed review is cancelled by any later user input for
\* the same question, the superseded review sends no ai_review and
\* enqueues no speech, and at most one review task is alive at any time:
\* no two reviews are running uncancelled, and a review that speaks is the
\* one pending_review_task names.
C23_ReviewCancelledByLaterInput ==
    /\ [](Cardinality({r \in DOMAIN reviews :
                          reviews[r].pc # "done" /\ ~reviews[r].cancelReq}) <= 1)
    /\ [][\A r \in DOMAIN reviews :
             /\ reviews[r].pc \in {"nudge_send", "llm"}
             /\ reviews'[r].pc = "done"
             /\ Len(tts_sentence_queue') > Len(tts_sentence_queue)
             => pending_review_task = r]_vars

\* ------------------------------------------------------------------------
\* The session up to and after the disconnect of its client
\* ------------------------------------------------------------------------
\* The websocket loop once its finally block has run
ClosedProc == [kind |-> "main", pc |-> "closed", text |-> "", cancelReq |-> FALSE, n |-> 0]

\* msg["type"] == "websocket.disconnect": break, and the finally block of
\* azure_stream: cancel_tts_generation, worker.cancel(), cleanup_session.
\* A popped entry reads as the default that ensure_structs and the .get
\* calls supply; pending_user_text, completion_timer, pending_review_task
\* and gdd_answer_buffer are not popped.
Disconnect ==
    /\ procs[1].pc = "recv"
    /\ procs' = [procs EXCEPT ![1] = ClosedProc]
    /\ cancel_tts_generation
    /\ workers' = WorkerCancelled(workers)
    /\ tts_cancel_events' = FALSE
    /\ tts_playback_task' = 0
    /\ assistant_is_speaking' = FALSE
    /\ llm_stop_flags' = FALSE
    /\ llm_busy' = FALSE
    /\ gdd_wizard_active' = FALSE
    /\ gdd_wizard_stage' = 0
    /\ gdd_session_map' = ""
    /\ evt' = Did("closed")
    /\ UNCHANGED <<nextSid, streamers, gdd_answer_buffer, vRev, vPend, lastSent,
                   submitted, nInputs, starters, finishers, exporters, quality,
                   session_store>>

\* The recogniser calls back until stop_continuous_recognition
CloseFinal == procs[1].pc = "recv" /\ nInputs < MaxFinals /\ OnFinal

CloseNext ==
    \/ CloseFinal
    \/ Disconnect
    \/ Timer
    \/ Handler
    \/ Streamer
    \/ GenComplete
    \/ Worker
    \/ Review

CloseSpec == Init /\ [][CloseNext]_vars

\* C24: after a client disconnect has been handled no task of the session
\* is alive: the playback worker and the synthesis tasks are done or
\* cancelled, and no generation streamer, debounce timer or review task is
\* still running.
C24_NoTaskAfterDisconnect ==
    procs[1].pc = "closed"
    => /\ \A w \in DOMAIN workers : workers[w].pc = "done" \/ workers[w].cancelReq
       /\ tts_gen_tasks = <<>>
       /\ \A i \in DOMAIN streamers : streamers[i].pc = "done"
       /\ \A p \in DOMAIN procs : p > 1 => procs[p].pc = "done" \/ procs[p].cancelReq
       /\ \A r \in DOMAIN reviews : reviews[r].pc = "done" \/ reviews[r].cancelReq

\* ------------------------------------------------------------------------
\* The recogniser's thread beside the event loop
\* ------------------------------------------------------------------------
\* on_partial is called on the thread of the speech SDK and writes the
\* session's dictionaries there, so its writes may land before, after or
\* inside a step of the event loop.  Before and after are the steps of
\* OnPartial; this is a barge-in that lands inside
\* enqueue_sentence_for_tts, called by streamer i, between
\* tts_sentence_queue[session].append(...) and
\* tts_gen_tasks[session].append(task): cancel_tts_generation replaces
\* both lists, and the task is then appended to the new list.
TornEnqueue(i, t) ==
    LET st == streamers[i]
        sentence == IF st.pc = "sent_send" THEN Head(st.out) ELSE Strip(st.buf)
        after == IF st.pc = "sent_send"
                 THEN [st EXCEPT !.out = Tail(st.out),
                                 !.pc = IF Tail(st.out) # <<>> THEN "sent_send"
                                        ELSE "next"]
                 ELSE [st EXCEPT !.buf = <<>>, !.pc = "done_send", !.brk = FALSE]
    IN  /\ st.pc \in {"sent_send", "flush_send"}
        /\ clean_sentence_for_tts(sentence) # <<>>
        /\ nInputs < MaxInputs
        /\ BargeIn(t)
        /\ ~NoWorkerRunning
        /\ nInputs' = nInputs + 1
        /\ reviews' = IF pending_user_text # t THEN ReviewCancelled(reviews) ELSE reviews
        /\ pending_review_task' = 0
        /\ llm_stop_flags' = TRUE
        /\ tts_cancel_events' = TRUE
        /\ tts_sentence_queue' = <<>>
        /\ tts_gen_tasks' = <<[sid |-> nextSid, st |-> "run"]>>
        /\ nextSid' = nextSid + 1
        /\ workers' = WorkerCancelled(workers)
        /\ assistant_is_speaking' = FALSE
        /\ streamers' = [Interrupted("barge") EXCEPT ![i] = after]
        /\ evt' = Did("barge")
        /\ UNCHANGED <<tts_playback_task, llm_busy, vWiz, vPend, procs, lastSent,
                       submitted, vBack>>

TornPartial ==
    \E i \in DOMAIN streamers : \E t \in PartialTexts : TornEnqueue(i, t)

\* A barge-in that lands inside a step of tts_playback_worker w.  The worker
\* has finished the pacing sleep of a sentence and the next sentence's audio
\* is ready, so it runs from "assistant_is_speaking[session] = False" to the
\* next ws.send_bytes without suspending.  on_partial read
\* assistant_is_speaking before that step and makes its writes after the
\* worker has popped the next sentence and passed both checks of the Event,
\* and before the worker's "assistant_is_speaking[session] = True".
TornPlayback(w, t) ==
    LET r == WorkerLoop(tts_sentence_queue, tts_gen_tasks, tts_cancel_events) IN
    /\ workers[w].pc = "send"
    /\ ~workers[w].cancelReq
    /\ tts_playback_task = w
    /\ r.k = "send"
    /\ nInputs < MaxInputs
    /\ BargeIn(t)
    /\ nInputs' = nInputs + 1
    /\ reviews' = IF pending_user_text # t THEN ReviewCancelled(reviews) ELSE reviews
    /\ pending_review_task' = 0
    /\ llm_stop_flags' = TRUE
    /\ tts_cancel_events' = TRUE
    /\ tts_sentence_queue' = <<>>
    /\ tts_gen_tasks' = <<>>
    /\ workers' = [workers EXCEPT ![w] = [@ EXCEPT !.cancelReq = TRUE, !.cur = r.cur]]
    /\ assistant_is_speaking' = TRUE
    /\ lastSent' = Sent(r.cur)
    /\ streamers' = Interrupted("barge")
    /\ evt' = Did("barge")
    /\ UNCHANGED <<tts_playback_task, nextSid, llm_busy, vWiz, vPend, procs,
                   submitted, vBack>>

TornWorker ==
    \E w \in DOMAIN workers : \E t \in PartialTexts : TornPlayback(w, t)

\* msg = await ws.receive() with a {"type": "text"} chat message
ThreadText ==
    /\ procs[1].pc = "recv"
    /\ nInputs < MaxInputs
    /\ WizEnter(1, "hello")
    /\ nInputs' = nInputs + 1
    /\ UNCHANGED <<vPend, submitted, gdd_session_map, starters, session_store>>

ThreadNext ==
    \/ ThreadText
    \/ OnPartial
    \/ TornPartial
    \/ TornWorker
    \/ Handler
    \/ Streamer
    \/ GenComplete
    \/ Worker

ThreadSpec == Init /\ [][ThreadNext]_vars

\* C25: on_partial and on_final change no session state on the SDK's
\* thread, so no update lands in the middle of an event-loop step: the
\* sentence queue and the list of synthesis tasks, which every step of the
\* event loop updates together, always hold the same sentences in the same
\* order.
C25_NoUpdateInsideALoopStep ==
    /\ Len(tts_sentence_queue) = Len(tts_gen_tasks)
    /\ \A k \in DOMAIN tts_sentence_queue :
           tts_sentence_queue[k].sid = tts_gen_tasks[k].sid

\* C26: every failed or timed-out call of the wizard to the document
\* backend (start, finish, export) ends with a wizard_notice sent to the
\* client.
C26_FailedCallGivesNotice ==
    /\ \A k \in DOMAIN starters :
           starters[k].how = "fail" => "wizard_notice" \in starters[k].sent
    /\ \A f \in DOMAIN finishers :
           finishers[f].how \in {"err", "exc"} => "wizard_notice" \in finishers[f].sent
    /\ \A x \in DOMAIN exporters :
           exporters[x].how \in {"err", "exc"} => "wizard_notice" \in exporters[x].sent

Alphabet == {"a", ".", "!", "?", "...", " "}

\* The tokens a reply may be cut into
Chunks == UNION {[1..n -> Alphabet] : n \in 1..MaxChunk}

HelloWorldHowAre == <<"H", "e", "l", "l", "o", " ", "w", "o", "r", "l", "d", ".", " ", "H", "o", "w", " ", "a", "r", "e">>
HelloWorld == <<"H", "e", "l", "l", "o", " ", "w", "o", "r", "l", "d", ".">>
HowAre == <<"H", "o", "w", " ", "a", "r", "e">>
You == <<" ", "y", "o", "u", "?">>
HowAreYou == <<"H", "o", "w", " ", "a", "r", "e", " ", "y", "o", "u", "?">>

\* token_buffer = "" before the loop; fed, arg and res record the tokens
\* received, and the argument and the sentences of the last call of
\* extract_sentences
NewTokenLoop ==
    [pc |-> "next", buf |-> <<>>, out |-> <<>>, fed |-> <<>>, arg |-> <<>>, res |-> <<>>]

TokenLoopInit ==
    /\ tts_sentence_queue = <<>>
    /\ tts_gen_tasks = <<>>
    /\ tts_cancel_events = FALSE
    /\ workers = <<>>
    /\ tts_playback_task = 0
    /\ assistant_is_speaking = FALSE
    /\ llm_stop_flags = FALSE
    /\ llm_busy = TRUE
    /\ streamers = <<NewTokenLoop>>
    /\ gdd_wizard_active = FALSE
    /\ gdd_wizard_stage = 0
    /\ gdd_answer_buffer = <<>>
    /\ reviews = <<>>
    /\ pending_review_task = 0
    /\ pending_user_text = ""
    /\ completion_timer = 0
    /\ procs = <<MainProc>>
    /\ nextSid = 1
    /\ lastSent = NoneSent
    /\ submitted = <<>>
    /\ evt = Did("init")
    /\ nInputs = 1
    /\ gdd_session_map = ""
    /\ starters = <<>>
    /\ finishers = <<>>
    /\ exporters = <<>>
    /\ quality = NoQuality
    /\ session_store = NoSession

\* token_buffer += token; sentences, token_buffer =
\* extract_sentences(token_buffer); the sentences are published in order
FeedToken(tok) ==
    LET st == streamers[1]
        r == extract_sentences(st.buf \o tok)
    IN  /\ st.pc = "next"
        /\ streamers' = <<[st EXCEPT !.buf = r.remainder, !.out = @ \o r.sentences,
                                     !.fed = @ \o tok, !.arg = st.buf \o tok,
                                     !.res = r.sentences]>>
        /\ evt' = Did("token")
        /\ UNCHANGED <<vPlay, tts_cancel_events, assistant_is_speaking, llm_stop_flags,
                       llm_busy, vWiz, vRev, vPend, procs, lastSent, submitted, nInputs,
                       vBack>>

\* A token of at most MaxChunk characters, within a reply of MaxReply; or
\* the reply 'Hello world. How are' + ' you?'
Token ==
    \/ \E tok \in Chunks :
          /\ Len(streamers[1].fed) + Len(tok) <= MaxReply
          /\ FeedToken(tok)
    \/ streamers[1].fed = <<>> /\ FeedToken(HelloWorldHowAre)
    \/ streamers[1].fed = HelloWorldHowAre /\ FeedToken(You)

\* "# leftover": if token_buffer.strip(): the rest is published as a last
\* sentence
FlushLeftover ==
    LET st == streamers[1] IN
    /\ st.pc = "next"
    /\ streamers' = <<[st EXCEPT !.pc = "done",
                                 !.out = IF Strip(st.buf) # <<>>
                                         THEN Append(@, Strip(st.buf)) ELSE @]>>
    /\ evt' = Did("flush")
    /\ UNCHANGED <<vPlay, tts_cancel_events, assistant_is_speaking, llm_stop_flags,
                   llm_busy, vWiz, vRev, vPend, procs, lastSent, submitted, nInputs,
                   vBack>>

TokenLoopNext ==
    \/ Token
    \/ FlushLeftover

TokenLoopSpec == TokenLoopInit /\ [][TokenLoopNext]_vars

\* The positions of buffer b at which a sentence ends: an end mark followed
\* by whitespace or by the end of b
Cuts(b) == {i \in 1..Len(b) : b[i] \in Ends /\ (i = Len(b) \/ b[i + 1] \in Spaces)}

\* The k-th smallest element of S, 0 for k = 0
Kth(S, k) == IF k = 0 THEN 0 ELSE CHOOSE x \in S : Cardinality({y \in S : y <= x}) = k

\* The sentences of the last call are the pieces of its argument between
\* consecutive cuts, stripped, in order
PiecesInOrder(st) ==
    LET n == Cardinality(Cuts(st.arg)) IN
    /\ Len(st.res) = n
    /\ \A k \in 1..n :
           st.res[k] = Strip(SubSeq(st.arg, Kth(Cuts(st.arg), k - 1) + 1,
                                    Kth(Cuts(st.arg), k)))

\* The rest of b after its last cut
Rest(b) == SubSeq(b, Kth(Cuts(b), Cardinality(Cuts(b))) + 1, Len(b))

\* The two examples of the specification
ExamplesHold(st) ==
    /\ st.arg = HelloWorldHowAre => st.res = <<HelloWorld>> /\ st.buf = HowAre
    /\ st.arg = HowAreYou => st.res = <<HowAreYou>> /\ st.buf = <<>>

\* C28 (as stated): extract_sentences(buffer) returns, in order, exactly
\* the pieces of buffer that end at a terminal punctuation mark followed by
\* whitespace or the end of the buffer, and the unconsumed rest as
\* remainder; the two examples hold; a buffer without terminal punctuation
\* gives no sentences and the whole buffer as remainder.
C28_WholeBufferAsRemainder ==
    LET st == streamers[1] IN
    st.pc = "next" /\ st.fed # <<>>
    => /\ PiecesInOrder(st)
       /\ st.buf = LStrip(Rest(st.arg))
       /\ ExamplesHold(st)
       /\ Cuts(st.arg) = {} => st.res = <<>> /\ st.buf = st.arg

\* C28 (amended): as above, and a buffer without terminal punctuation gives
\* no sentences and the buffer without its leading whitespace as remainder.
C28_BufferSplitAtEndMarks ==
    LET st == streamers[1] IN
    st.pc = "next" /\ st.fed # <<>>
    => /\ PiecesInOrder(st)
       /\ st.buf = LStrip(Rest(st.arg))
       /\ ExamplesHold(st)
       /\ Cuts(st.arg) = {} => st.res = <<>> /\ st.buf = LStrip(st.arg)

\* extract_sentences has been called with 'How are you?', made of the
\* remainder of 'Hello world. How are' and a new token
C28_SecondExample ==
    /\ streamers[1].arg = HowAreYou
    /\ streamers[1].fed = HelloWorldHowAre \o You
    /\ streamers[1].res = <<HowAreYou>>

\* The characters of s that are not whitespace
NonSpace(s) == SelectSeq(s, LAMBDA c : c \notin Spaces)

RECURSIVE Flatten(_)
Flatten(ss) == IF ss = <<>> THEN <<>> ELSE Head(ss) \o Flatten(Tail(ss))

\* C29: the token loop (buffer := previous remainder + token, then
\* extract_sentences, the last non-empty remainder flushed as a sentence)
\* emits every non-whitespace character of the reply exactly once and in
\* order, and extract_sentences applied to its own remainder returns no
\* sentence and the same remainder.
C29_EveryCharacterOnceInOrder ==
    LET st == streamers[1] IN
    /\ NonSpace(Flatten(st.out) \o (IF st.pc = "done" THEN <<>> ELSE st.buf))
           = NonSpace(st.fed)
    /\ extract_sentences(st.buf) = [sentences |-> <<>>, remainder |-> st.buf]

\* A reply of several tokens has ended with a sentence extracted and a
\* leftover flushed
C29_SentenceThenLeftover ==
    LET st == streamers[1] IN
    /\ st.pc = "done"
    /\ st.fed # st.arg
    /\ Len(st.out) = 2
    /\ st.out[2] = Strip(st.buf)

\* C30: when the backend's finish call succeeds after 'finish gdd', the
\* client is sent a gdd_complete event that carries the markdown.
C30_FinishSendsGddComplete ==
    \A f \in DOMAIN finishers :
        finishers[f].pc = "done" /\ finishers[f].how = "ok"
        => "gdd_complete" \in finishers[f].sent

\* The steps of a worker from its exit of the loop on: nothing but one step
\* to the end of the task, no audio is handed to ws.send_bytes meanwhile,
\* and voice_done is sent by that step only
AfterTheLoop(w) ==
    /\ workers[w].pc = "vdone" =>
          /\ lastSent' = lastSent
          /\ workers'[w].pc \in {"vdone", "done"}
    /\ workers[w].pc = "done" => workers'[w].pc = "done"
    /\ evt'.k = "voice_done" /\ workers'[w] # workers[w]
          => workers[w].pc = "vdone" /\ workers'[w].pc = "done"

\* C31 (as stated): a worker that leaves its loop because the queue is
\* empty and no synthesis task is outstanding sends exactly one voice_done,
\* after the last audio it sent, and sends no audio after it.
C31_OneVoiceDoneAfterEmptyQueue ==
    [][\A w \in DOMAIN workers :
          /\ AfterTheLoop(w)
          /\ workers[w].pc = "vdone" /\ workers[w].why = "empty"
                                     /\ workers'[w].pc = "done"
                => evt'.k = "voice_done"]_vars

\* C31 (amended): such a worker sends exactly one voice_done, after the last
\* audio it sent, and no audio after it, unless it is cancelled while that
\* send is pending; it then ends without voice_done.  No worker sends
\* voice_done twice or audio after it.
C31_OneVoiceDoneUnlessCancelled ==
    [][\A w \in DOMAIN workers :
          /\ AfterTheLoop(w)
          /\ workers[w].pc = "vdone" /\ workers[w].why = "empty"
                                     /\ workers'[w].pc = "done"
                => (evt'.k = "voice_done") = ~workers[w].cancelReq]_vars

\* Two sentences have been played and the worker, finding the queue empty,
\* has sent voice_done
C31_VoiceDoneAfterTwoSentences ==
    /\ evt = Heard("voice_done", "empty")
    /\ lastSent.sid = 2
    /\ \A w \in DOMAIN workers : workers[w].pc = "done"

\* ------------------------------------------------------------------------
\* Replies played without any cancellation, every task being run
\* ------------------------------------------------------------------------
\* msg = await ws.receive() with a {"type": "text"} chat message
PlayText ==
    /\ procs[1].pc = "recv"
    /\ nInputs < MaxTurns
    /\ WizEnter(1, "hello")
    /\ nInputs' = nInputs + 1
    /\ UNCHANGED <<vPend, submitted, gdd_session_map, starters, session_store>>

PlayNext ==
    \/ PlayText
    \/ Handler
    \/ Streamer
    \/ GenComplete
    \/ Worker

\* asyncio runs every task that is ready, and every synthesis returns
PlaySpec ==
    /\ Init
    /\ [][PlayNext]_vars
    /\ WF_vars(Handler)
    /\ WF_vars(Streamer)
    /\ WF_vars(GenComplete)
    /\ WF_vars(Worker)

\* Each reply of MaxTokens tokens holds at most a sentence per token and a
\* leftover
MaxSentences == MaxTurns * (MaxTokens + 1)

\* The synthesis of sentence s has returned without audio
SynthesisFailed(s) ==
    \/ \E k \in DOMAIN tts_gen_tasks :
           tts_gen_tasks[k].sid = s /\ tts_gen_tasks[k].st = "fail"
    \/ \E w \in DOMAIN workers : workers[w].cur.sid = s /\ workers[w].cur.st = "fail"

\* C32: absent any cancellation, every sentence passed to
\* enqueue_sentence_for_tts whose synthesis succeeds is eventually handed to
\* ws.send_bytes, for every interleaving of the enqueue with the worker's
\* loop and exit, also while the worker is sending voice_done or running
\* its cleanup.
C32_EnqueuedIsEventuallySent ==
    \A s \in 1 .. MaxSentences :
        (nextSid > s) ~> (lastSent.sid = s \/ SynthesisFailed(s))

\* extract_sentences applied once to the whole reply, its remainder, stripped
\* and non-empty, being the last sentence
WholeText(text) ==
    LET r == extract_sentences(text)
    IN  IF Strip(r.remainder) # <<>> THEN Append(r.sentences, Strip(r.remainder))
        ELSE r.sentences

\* C33: the sentences produced for a reply do not depend on how the reply is
\* split into tokens: when the token loop has ended, the sentences it
\* published are those extract_sentences gives for the whole reply, with the
\* final remainder as last sentence; so an end mark followed by a
\* non-whitespace character in the reply ends no sentence.
C33_SentencesIndependentOfTokens ==
    LET st == streamers[1] IN
    st.pc = "done" => st.out = WholeText(st.fed)

C35_StaleFinishKeepsWizardActive ==
    [][gdd_wizard_active /\ ~gdd_wizard_active'
          => \E f \in DOMAIN finishers :
                /\ finishers[f].pc # "done"
                /\ finishers'[f].pc = "done"
                /\ finishers[f].gen = Len(starters)]_vars

\* ------------------------------------------------------------------------
\* The wizard of main.py: azure_stream.recognized with the backend
\* ------------------------------------------------------------------------
MainTexts == {"activate wizard", "go next", "a puzzle game", "hello"}

\* any(phrase in normalized for phrase in cmd_phrases)
IsCommand(t) == IsActivation(t) \/ IsGoNext(t) \/ IsFinish(t)

\* The _record task of an accepted answer; n: the stage of the wizard when
\* the answer was given
NewRecord(t) ==
    [kind |-> "record", pc |-> "start", text |-> t, cancelReq |-> FALSE,
     n |-> gdd_wizard_stage]

\* recognized(evt) of main.py with evt.result.text = t, a text without a
\* finish phrase: activation, Go Next, the wizard answer, or the normal LLM
\* flow, which touches nothing of the wizard
recognized(t) ==
    /\ nInputs < MaxSpoken
    /\ nInputs' = nInputs + 1
    /\ IF IsActivation(t)
       THEN /\ gdd_wizard_active' = TRUE
            /\ gdd_wizard_stage' = 0
            /\ starters' = Append(starters, NewStarter)
            /\ evt' = Heard("activate", t)
            /\ UNCHANGED procs
       ELSE IF gdd_wizard_active /\ IsGoNext(t)
       THEN /\ gdd_wizard_stage' = IF PastLast(gdd_wizard_stage + 1)
                                   THEN gdd_wizard_stage ELSE gdd_wizard_stage + 1
            /\ evt' = Heard("gonext", t)
            /\ UNCHANGED <<gdd_wizard_active, starters, procs>>
       ELSE IF gdd_wizard_active /\ ~IsCommand(t) /\ Words(t) >= MinAnswerWords
       THEN /\ procs' = Append(procs, NewRecord(t))
            /\ evt' = Heard("answer", t)
            /\ UNCHANGED <<gdd_wizard_active, gdd_wizard_stage, starters>>
       ELSE /\ evt' = Heard(IF gdd_wizard_active THEN "short" ELSE "chat", t)
            /\ UNCHANGED <<gdd_wizard_active, gdd_wizard_stage, starters, procs>>
    /\ UNCHANGED <<vPlay, tts_cancel_events, assistant_is_speaking, llm_stop_flags,
                   llm_busy, streamers, gdd_answer_buffer, vRev, vPend, lastSent,
                   submitted, gdd_session_map, finishers, exporters, quality, session_store>>

Recognized == \E t \in MainTexts : recognized(t)

\* q_index of gdd_answer: the question the backend files an answer under
RecordedFor(d) == IF d.index = 0 THEN 0 ELSE d.index - 1

\* One step of the _record task p: without a backend session id it
\* returns, else it posts the answer to /gdd/answer and sends wizard_answer
RecordStep(p) ==
    /\ procs[p].kind = "record"
    /\ procs[p].pc \in {"start", "post"}
    /\ IF procs[p].pc = "start"
       THEN /\ procs' = [procs EXCEPT ![p].pc =
                   IF gdd_session_map = "" THEN "done" ELSE "post"]
            /\ evt' = Did("step")
            /\ UNCHANGED session_store
       ELSE /\ session_store' = gdd_answer(session_store)
            /\ procs' = [procs EXCEPT ![p].pc = "done"]
            /\ evt' = Did("api_answer")
    /\ UNCHANGED <<vPlay, tts_cancel_events, assistant_is_speaking, llm_stop_flags,
                   llm_busy, streamers, vWiz, vRev, vPend, lastSent, submitted,
                   nInputs, gdd_session_map, starters, finishers, exporters, quality>>

Record == \E p \in DOMAIN procs : RecordStep(p)

\* The _start_gdd_session task s resumes from its POST /gdd/start: status
\* 200 stores the session id, another status or an exception is printed;
\* nothing is sent to the client
StartGddSession(s) ==
    /\ starters[s].pc = "post"
    /\ \/ /\ starters' = [starters EXCEPT ![s] = [pc |-> "done", how |-> "ok", sent |-> {}]]
          /\ gdd_session_map' = "sid"
          /\ session_store' = gdd_start
       \/ /\ starters' = [starters EXCEPT ![s] = [pc |-> "done", how |-> "fail", sent |-> {}]]
          /\ UNCHANGED <<gdd_session_map, session_store>>
    /\ evt' = Did("step")
    /\ UNCHANGED <<vPlay, tts_cancel_events, assistant_is_speaking, llm_stop_flags,
                   llm_busy, streamers, vWiz, vRev, vPend, procs, lastSent, submitted,
                   nInputs, finishers, exporters, quality>>

MainStart == \E s \in DOMAIN starters : StartGddSession(s)

MainNext ==
    \/ Recognized
    \/ MainStart
    \/ Record

MainSpec == Init /\ [][MainNext]_vars

\* C36: an answer recorded in the document backend is stored under the
\* question the wizard had most recently asked: whenever an answer is
\* posted to /gdd/answer and recorded, the question the backend files it
\* under is the one the wizard's stage pointer designated when the answer
\* was given, after any number of go-next commands.
C36_AnswerFiledUnderAskedQuestion ==
    [][\A p \in DOMAIN procs :
          /\ procs[p].kind = "record"
          /\ procs[p].pc = "post"
          /\ procs'[p].pc = "done"
          /\ session_store'.resp = "ok"
          => RecordedFor(session_store) = procs[p].n]_vars

\* The worker, were it to run its loop now, would pop from an empty
\* sentence queue
PopsFromEmptyQueue ==
    WorkerLoop(tts_sentence_queue, tts_gen_tasks, tts_cancel_events).k = "crash"

\* C37: at every suspension point tts_sentence_queue and tts_gen_tasks have
\* the same length and their i-th entries belong to the same sentence,
\* across enqueue_sentence_for_tts, the worker's pops, cancel_tts_generation
\* and the worker's cleanup; so the worker never pops from an empty
\* sentence queue.
C37_QueueAndTasksAligned ==
    /\ DOMAIN tts_sentence_queue = DOMAIN tts_gen_tasks
    /\ \A i \in DOMAIN tts_gen_tasks : tts_gen_tasks[i].sid = tts_sentence_queue[i].sid
    /\ ~PopsFromEmptyQueue

\* A worker is between the start of ws.send_bytes for a sentence and the end
\* of that sentence's pacing sleep
SendingAudio == \E w \in DOMAIN workers : workers[w].pc = "send"

\* The step is one of the cancellation handlers: stop_llm, a barge-in of
\* on_partial, or the ACTIVATE branch up to stop_all
CancellationHandled ==
    \/ procs[1].pc = "recv" /\ procs'[1].pc = "stop_send"
    \/ nInputs' # nInputs /\ evt'.k = "barge"
    \/ \E p \in DOMAIN procs : procs[p].pc # "act_stop" /\ procs'[p].pc = "act_stop"

\* C38: assistant_is_speaking is true only while a worker is between
\* starting to send a sentence's audio and the end of that sentence's
\* pacing sleep; it is false whenever no worker is alive, and at the end of
\* every cancellation handler (stop_llm, barge-in, wizard activation).
C38_SpeakingOnlyWhileSending ==
    /\ [](assistant_is_speaking => SendingAudio)
    /\ [](Alive(workers) = {} => ~assistant_is_speaking)
    /\ [][CancellationHandled => ~assistant_is_speaking']_vars

\* ------------------------------------------------------------------------
\* meta_agent.py: ensure_quality
\* ------------------------------------------------------------------------
\* max_attempts of the calls checked; generate_gdd passes
\* max_attempts_per_agent, 3 unless its caller says otherwise
MaxAttempts == 3

\* What an agent returns: a text or None
Outputs == {"draft a", "draft b", "None"}

\* What qc_review returns: the stripped answer of the QC agent, "" for
\* None, or "QCAgent error: ..." when QCAgent.review raised
Feedbacks == {"", "APPROVED", "Not approved: pacing", "fix the pacing",
              "QCAgent error: no attribute review"}

\* "approved" in (feedback or "").lower() or feedback.strip() == ""
IsApproved(feedback) ==
    feedback \in {"", "APPROVED", "Not approved: pacing"}

\* ensure_quality is called: qc_feedback = None; current_output = None;
\* given holds the argument of each invocation of agent_call_coro, heard
\* the feedback of each review
NewQuality(n) ==
    [pc |-> "loop", max_attempts |-> n, attempt |-> 0, qc_feedback |-> "None",
     current_output |-> "None", given |-> <<>>, heard |-> <<>>, result |-> <<>>]

QualityInit ==
    /\ tts_sentence_queue = <<>>
    /\ tts_gen_tasks = <<>>
    /\ tts_cancel_events = FALSE
    /\ workers = <<>>
    /\ tts_playback_task = 0
    /\ assistant_is_speaking = FALSE
    /\ llm_stop_flags = FALSE
    /\ llm_busy = FALSE
    /\ streamers = <<>>
    /\ gdd_wizard_active = FALSE
    /\ gdd_wizard_stage = 0
    /\ gdd_answer_buffer = <<>>
    /\ reviews = <<>>
    /\ pending_review_task = 0
    /\ pending_user_text = ""
    /\ completion_timer = 0
    /\ procs = <<MainProc>>
    /\ nextSid = 1
    /\ lastSent = NoneSent
    /\ submitted = <<>>
    /\ evt = Did("init")
    /\ nInputs = 1
    /\ gdd_session_map = ""
    /\ starters = <<>>
    /\ finishers = <<>>
    /\ exporters = <<>>
    /\ \E n \in 0 .. MaxAttempts : quality = NewQuality(n)
    /\ session_store = NoSession

\* return approved, final_text, last_qc_feedback
Returns(q, approved, text, fb) ==
    [q EXCEPT !.pc = "done", !.result = <<approved, text, fb>>]

\* An exception leaves ensure_quality
Raises(q) == [q EXCEPT !.pc = "raised"]

\* current_output = ...; if current_output is None: current_output = ""
Generated(q, out) ==
    [q EXCEPT !.pc = "qc", !.current_output = IF out = "None" THEN "" ELSE out]

QualityUnchanged ==
    UNCHANGED <<vPlay, tts_cancel_events, assistant_is_speaking, llm_stop_flags,
                llm_busy, streamers, vWiz, vRev, vPend, procs, lastSent, submitted,
                nInputs, gdd_session_map, starters, finishers, exporters,
                session_store>>

\* for attempt in range(1, max_attempts + 1): the next attempt, or
\* "return False, current_output or "", qc_feedback" after the loop
NextAttempt ==
    LET q == quality IN
    /\ q.pc = "loop"
    /\ quality' = IF q.attempt < q.max_attempts
                  THEN [q EXCEPT !.pc = "agent", !.attempt = @ + 1]
                  ELSE Returns(q, FALSE,
                               IF q.current_output = "None" THEN "" ELSE q.current_output,
                               q.qc_feedback)
    /\ evt' = Did("step")
    /\ QualityUnchanged

\* current_output = await agent_call_coro(qc_feedback): the agent returns,
\* the callable takes no parameter (TypeError before it runs), the agent
\* raises TypeError while it runs, or it raises another exception
AgentCall ==
    LET q == quality
        called == [q EXCEPT !.given = Append(@, q.qc_feedback)]
    IN  /\ q.pc = "agent"
        /\ \/ \E out \in Outputs : quality' = Generated(called, out)
           \/ quality' = [q EXCEPT !.pc = "agent_noarg"]
           \/ quality' = [called EXCEPT !.pc = "agent_noarg"]
           \/ quality' = Raises(called)
        /\ evt' = Did("step")
        /\ QualityUnchanged

\* except TypeError: current_output = await agent_call_coro()
AgentCallNoArg ==
    LET q == quality
        called == [q EXCEPT !.given = Append(@, "no argument")]
    IN  /\ q.pc = "agent_noarg"
        /\ \/ \E out \in Outputs : quality' = Generated(called, out)
           \/ quality' = Raises(called)
        /\ evt' = Did("step")
        /\ QualityUnchanged

\* feedback = await qc_review(section_name, current_output), which raises
\* nothing; approved, or qc_feedback = feedback and the backoff sleep
QcReview ==
    LET q == quality IN
    /\ q.pc = "qc"
    /\ \E feedback \in Feedbacks :
          LET h == [q EXCEPT !.heard = Append(@, feedback)] IN
          quality' = IF IsApproved(feedback)
                     THEN Returns(h, TRUE, q.current_output, "None")
                     ELSE [h EXCEPT !.pc = "sleep", !.qc_feedback = feedback]
    /\ evt' = Did("step")
    /\ QualityUnchanged

\* await asyncio.sleep(0.5 * attempt) has returned
Backoff ==
    /\ quality.pc = "sleep"
    /\ quality' = [quality EXCEPT !.pc = "loop"]
    /\ evt' = Did("step")
    /\ QualityUnchanged

QualityNext ==
    \/ NextAttempt
    \/ AgentCall
    \/ AgentCallNoArg
    \/ QcReview
    \/ Backoff

\* Every await of ensure_quality returns or raises
QualitySpec ==
    QualityInit /\ [][QualityNext]_vars /\ WF_vars(QualityNext)

\* What the statement of C39 says of a call of ensure_quality, in state q
QualityAsStated(q) ==
    /\ Len(q.given) <= q.max_attempts
    /\ q.pc # "raised"
    /\ \A k \in DOMAIN q.given :
          k > 1 => k - 1 \in DOMAIN q.heard /\ q.given[k] = q.heard[k - 1]
    /\ q.pc = "done" =>
          IF q.result[1]
          THEN /\ q.heard # <<>>
               /\ \A k \in DOMAIN q.heard : IsApproved(q.heard[k]) <=> k = Len(q.heard)
               /\ q.result = <<TRUE, q.current_output, "None">>
          ELSE /\ Len(q.given) = q.max_attempts
               /\ Len(q.heard) = q.max_attempts
               /\ \A k \in DOMAIN q.heard : ~IsApproved(q.heard[k])
               /\ q.result[2] = IF q.current_output = "None" THEN "" ELSE q.current_output
               /\ q.result[3] = IF q.heard = <<>> THEN "None" ELSE q.heard[Len(q.heard)]

\* C39: ensure_quality always terminates and invokes the agent at most
\* max_attempts times; it returns (True, output, None) at the first
\* attempt whose QC feedback is empty or contains 'approved', and otherwise
\* (False, last output, last feedback) after exactly max_attempts attempts,
\* each rejection's feedback being passed to the next attempt.
C39_QualityLoopAsStated ==
    /\ [] QualityAsStated(quality)
    /\ <>(quality.pc = "done")
====
